---- MODULE Spec2Model ----
(***************************************************************************)
(* A model of two cores of isl: the coalescer of isl_coalesce.c and the    *)
(* affine scheduler of isl_schedule.c.                                     *)
(*                                                                         *)
(* The coalescer is modelled over one set dimension without divs and       *)
(* without parameters: a constraint row is <<c0, c1>> and stands for       *)
(* c0 + c1 * x (>= 0 for an inequality, = 0 for an equality).  The simplex *)
(* tableau of isl_tab.c is modelled by what it represents (its constraint  *)
(* rows, which of them are equalities, redundant or unrestricted), and the *)
(* classification isl_tab_ineq_type by the rational minimum and maximum of *)
(* the row over the tableau, which are exact for unit coefficients.        *)
(***************************************************************************)
EXTENDS Integers, Sequences, FiniteSets, TLC

\* ------------------------------------------------------------- bounds ----
\* largest number of basic maps in an input map
MaxN == 3
\* coordinates of the input bounds range over 0..MaxCoord
MaxCoord == 3

\* a value no row reaches: the bound of an unbounded direction
Inf == 8 * (MaxCoord + 4)

\* ------------------------------------------------- isl_coalesce.c:26-32 ---
STATUS_ERROR == -1
STATUS_REDUNDANT == 1
STATUS_VALID == 2
STATUS_SEPARATE == 3
STATUS_CUT == 4
STATUS_ADJ_EQ == 5
STATUS_ADJ_INEQ == 6

\* the value left by isl_calloc_array in an entry that was never written
STATUS_UNSET == 0

\* a NULL status array (fuse is called with eq_i = eq_j = NULL)
NULL == <<>>

VARIABLES
    p,        \* map->p[0..n-1], 1-based here: the basic maps
    tabs,     \* tabs[0..n-1]: the tableau of each basic map
    i, j,     \* the loop indices of coalesce(), 0-based as in the source
    pc,       \* where isl_map_coalesce is (in SpecPair: where
              \* coalesce_local_pair is)
    run,      \* 1: the first call, 2: the call on the result of the first
    input,    \* the map given to the first call
    out1,     \* the map returned by the first call
    n0,       \* map->n when coalesce() was entered
    restarts, \* number of times the inner loop restarted in this run
    last,     \* what the last call of coalesce_pair did
    ret       \* what isl_map_coalesce returned: "none", "map" or "NULL"

cvars == <<p, tabs, i, j, pc, run, input, out1, n0, restarts, last, ret>>

\* the state of isl_schedule_constraints_compute_schedule
VARIABLES
    opt,      \* ctx->opt: the options of the call
    sc,       \* the schedule constraints given to the call
    graphs,   \* the dependence graphs of the calls in progress, the
              \* innermost last: graphs[1] is the root graph
    arrays,   \* per statement, the band, band_id and coincident arrays
              \* allocated by extract_node and shared by all graphs
    rowlog,   \* per statement and row, which function appended the row,
              \* its band and the coincidence and conditional validity
              \* edges of its graph at that time
    sched,    \* the isl_schedule built by extract_schedule
    sret      \* where the call is: "called", "running", "schedule" once
              \* it returned a schedule, or the message of the error with
              \* which it returned NULL ("idle": there is no call); in
              \* SpecUniform also the function that compute_schedule_wcc
              \* returns through

svars == <<opt, sc, graphs, arrays, rowlog, sched, sret>>

vars == <<cvars, svars>>

\* no scheduler call is in progress
SchedIdle ==
    /\ opt = <<>>
    /\ sc = <<>>
    /\ graphs = <<>>
    /\ arrays = <<>>
    /\ rowlog = <<>>
    /\ sched = <<>>
    /\ sret = "idle"

\* ------------------------------------------------------------ notation --
\* F applied to the value v: names a value that is used more than once
Let(v, F(_)) == F(v)

\* --------------------------------------------------------------- rows ----
isl_seq_neg(r) == <<-r[1], -r[2]>>

isl_int_add_ui(r, d) == <<r[1] + d, r[2]>>

isl_seq_is_neg(r, s) == r[1] = -s[1] /\ r[2] = -s[2]

isl_seq_eq(r, s) == r = s

Max(S) == CHOOSE x \in S : \A y \in S : y <= x

Min(S) == CHOOSE x \in S : \A y \in S : x <= y

\* the value of row r in the point x
Val(r, x) == r[1] + r[2] * x

\* ------------------------------------------------------------ tableau ----
\* A tableau: its constraint rows in the order of the basic map (equalities
\* first), and for each row whether it is an equality, was marked redundant,
\* or was made unrestricted; and whether the tableau is rational.
Active(t, k) == ~t.red[k] /\ ~t.unres[k]

LowerBounds(t) ==
    {-t.con[k][1] : k \in {m \in 1..Len(t.con) :
                            Active(t, m) /\ t.con[m][2] = 1}}
    \cup {t.con[k][1] : k \in {m \in 1..Len(t.con) :
                            Active(t, m) /\ t.eq[m] /\ t.con[m][2] = -1}}

UpperBounds(t) ==
    {t.con[k][1] : k \in {m \in 1..Len(t.con) :
                            Active(t, m) /\ t.con[m][2] = -1}}
    \cup {-t.con[k][1] : k \in {m \in 1..Len(t.con) :
                            Active(t, m) /\ t.eq[m] /\ t.con[m][2] = 1}}

TabLo(t) == Max(LowerBounds(t) \cup {-Inf})

TabHi(t) == Min(UpperBounds(t) \cup {Inf})

\* a constant row that no point satisfies
BadConst(t) ==
    \E k \in 1..Len(t.con) :
        /\ Active(t, k) /\ t.con[k][2] = 0
        /\ \/ t.con[k][1] < 0
           \/ t.eq[k] /\ t.con[k][1] # 0

\* tab->empty
TabEmpty(t) == TabLo(t) > TabHi(t) \/ BadConst(t)

\* the integer points of the tableau inside a window
TabPoints(t, W) ==
    IF TabEmpty(t) THEN {} ELSE {x \in W : TabLo(t) <= x /\ x <= TabHi(t)}

\* some column of the tableau is dead: an equality fixes x
HasEq(t) == \E k \in 1..Len(t.con) : Active(t, k) /\ t.eq[k] /\ t.con[k][2] # 0

\* the smallest and the largest value of row r for lo <= x <= hi
RowMin(r, lo, hi) ==
    IF r[2] = 0 THEN r[1] ELSE IF r[2] = 1 THEN r[1] + lo ELSE r[1] - hi

RowMax(r, lo, hi) ==
    IF r[2] = 0 THEN r[1] ELSE IF r[2] = 1 THEN r[1] + hi ELSE r[1] - lo

MinOver(t, r) == RowMin(r, TabLo(t), TabHi(t))

MaxOver(t, r) == RowMax(r, TabLo(t), TabHi(t))

\* isl_tab_ineq_type: the position of row r with respect to tableau t.
\* A row that is at most -1 everywhere is adjacent to an equality when x is
\* fixed by the tableau and adjacent to an inequality otherwise; a rational
\* tableau knows no adjacency.
isl_tab_ineq_type(t, r) ==
    Let(TabLo(t), LAMBDA lo :
    Let(TabHi(t), LAMBDA hi :
    Let(RowMax(r, lo, hi), LAMBDA max :
        IF lo > hi \/ BadConst(t) \/ RowMin(r, lo, hi) >= 0 THEN "redundant"
        ELSE IF max >= 0 THEN "cut"
        ELSE IF t.rational \/ max # -1 \/ r[2] = 0 THEN "separate"
        ELSE IF HasEq(t) THEN "adj_eq"
        ELSE "adj_ineq")))

isl_tab_from_basic_map(bmap) ==
    [con |-> bmap.eq \o bmap.ineq,
     eq |-> [k \in 1..(Len(bmap.eq) + Len(bmap.ineq)) |-> k <= Len(bmap.eq)],
     red |-> [k \in 1..(Len(bmap.eq) + Len(bmap.ineq)) |-> FALSE],
     unres |-> [k \in 1..(Len(bmap.eq) + Len(bmap.ineq)) |-> FALSE],
     rational |-> bmap.rational]

\* isl_tab_is_redundant(tab, con), con 0-based
isl_tab_is_redundant(t, con) == t.red[con + 1]

\* isl_tab_is_equality(tab, con), con 0-based
isl_tab_is_equality(t, con) ==
    Let(TabLo(t), LAMBDA lo :
    Let(TabHi(t), LAMBDA hi :
        /\ ~t.red[con + 1]
        /\ ~(lo > hi \/ BadConst(t))
        /\ RowMin(t.con[con + 1], lo, hi) = 0
        /\ RowMax(t.con[con + 1], lo, hi) = 0))

\* isl_tab_detect_redundant: mark, one at a time, each inequality that is
\* implied by the rows that are still active.
RECURSIVE DetectFrom(_, _)
DetectFrom(t, k) ==
    IF k > Len(t.con) THEN t
    ELSE LET t2 == [t EXCEPT !.red[k] = TRUE]
         IN  IF ~t.eq[k] /\ Active(t, k) /\ MinOver(t2, t.con[k]) >= 0
             THEN DetectFrom(t2, k + 1)
             ELSE DetectFrom(t, k + 1)

isl_tab_detect_redundant(t) == IF TabEmpty(t) THEN t ELSE DetectFrom(t, 1)

isl_tab_mark_rational(t) == [t EXCEPT !.rational = TRUE]

\* isl_tab_select_facet(tab, con): turn the inequality into an equality
isl_tab_select_facet(t, con) == [t EXCEPT !.eq[con + 1] = TRUE]

\* isl_tab_relax(tab, con): replace r >= 0 by r + 1 >= 0
isl_tab_relax(t, con) ==
    [t EXCEPT !.con[con + 1] = isl_int_add_ui(t.con[con + 1], 1)]

isl_tab_unrestrict(t, con) == [t EXCEPT !.unres[con + 1] = TRUE]

isl_tab_add_ineq(t, r) ==
    [t EXCEPT !.con = Append(t.con, r), !.eq = Append(t.eq, FALSE),
              !.red = Append(t.red, FALSE), !.unres = Append(t.unres, FALSE)]

isl_tab_add_eq(t, r) ==
    [t EXCEPT !.con = Append(t.con, r), !.eq = Append(t.eq, TRUE),
              !.red = Append(t.red, FALSE), !.unres = Append(t.unres, FALSE)]

\* isl_tab_snap(tab): the position in the undo list of the tableau; the
\* model keeps the tableau as it is at that position
isl_tab_snap(t) == t

\* a rollback that undoes nothing
isl_tab_rollback_nothing(t, snap) == t

\* isl_tab_rollback(tab, snap): undo every operation since the snapshot
\* (rows added, relaxations, unrestrictions, selected facets, redundancy
\* marks and the rational mark)
isl_tab_rollback(t, snap) == snap

\* a freed slot of the tabs array
NullTab == [null |-> TRUE]

IsNull(t) == "null" \in DOMAIN t

\* ----------------------------------------------------- basic map helpers --
\* the integer points of a basic map inside a window
BmapPoints(bmap, W) ==
    {x \in W : /\ \A k \in 1..Len(bmap.eq) : Val(bmap.eq[k], x) = 0
               /\ \A k \in 1..Len(bmap.ineq) : Val(bmap.ineq[k], x) >= 0}

\* the integer points of a map (a sequence of basic maps)
MapPoints(q, W) == UNION {BmapPoints(q[k], W) : k \in 1..Len(q)}

\* isl_basic_map_alloc_space: a basic map without constraints or flags
isl_basic_map_alloc_space ==
    [eq |-> <<>>, ineq |-> <<>>, rational |-> FALSE,
     no_implicit |-> FALSE, no_redundant |-> FALSE]

\* SelectSeq with an index: the entries of s whose index satisfies keep
RECURSIVE Pick(_, _, _)
Pick(s, keep, k) ==
    IF k > Len(s) THEN <<>>
    ELSE (IF keep[k] THEN <<s[k]>> ELSE <<>>) \o Pick(s, keep, k + 1)

\* isl_basic_map_detect_inequality_pairs: an inequality whose opposite is
\* also an inequality becomes an equality
isl_basic_map_detect_inequality_pairs(bmap) ==
    LET n == Len(bmap.ineq)
        first == [k \in 1..n |->
                    /\ \E l \in (k + 1)..n :
                          isl_seq_is_neg(bmap.ineq[k], bmap.ineq[l])
                    /\ ~\E l \in 1..(k - 1) :
                          \/ isl_seq_is_neg(bmap.ineq[k], bmap.ineq[l])
                          \/ isl_seq_eq(bmap.ineq[k], bmap.ineq[l])]
        second == [k \in 1..n |->
                    \E l \in 1..n : first[l] /\
                          (isl_seq_is_neg(bmap.ineq[k], bmap.ineq[l])
                           \/ (l # k /\ isl_seq_eq(bmap.ineq[k], bmap.ineq[l])))]
    IN  [bmap EXCEPT
            !.eq = bmap.eq \o Pick(bmap.ineq, first, 1),
            !.ineq = Pick(bmap.ineq,
                          [k \in 1..n |-> ~first[k] /\ ~second[k]], 1)]

\* isl_basic_map_set_to_empty
isl_basic_map_set_to_empty(bmap) ==
    [bmap EXCEPT !.eq = << <<1, 0>> >>, !.ineq = <<>>]

\* isl_basic_map_gauss: the first equality in x becomes the pivot, with a
\* positive coefficient, and x is eliminated from every other row
isl_basic_map_gauss(bmap) ==
    LET piv == {k \in 1..Len(bmap.eq) : bmap.eq[k][2] # 0}
    IN  IF piv = {} THEN
            IF \E k \in 1..Len(bmap.eq) : bmap.eq[k][1] # 0
            THEN isl_basic_map_set_to_empty(bmap)
            ELSE [bmap EXCEPT !.eq = <<>>]
        ELSE
            LET e0 == bmap.eq[Min(piv)]
                e == IF e0[2] < 0 THEN isl_seq_neg(e0) ELSE e0
                Elim(r) == <<r[1] - r[2] * e[1], 0>>
            IN  IF \E k \in 1..Len(bmap.eq) :
                      k # Min(piv) /\ Elim(bmap.eq[k])[1] # 0
                THEN isl_basic_map_set_to_empty(bmap)
                ELSE [bmap EXCEPT
                        !.eq = <<e>>,
                        !.ineq = [k \in 1..Len(bmap.ineq) |->
                                     Elim(bmap.ineq[k])]]

\* isl_basic_map_update_from_tab: inequalities that the tableau knows to be
\* equalities are moved to the equalities (last one first), the redundant
\* ones are dropped
isl_basic_map_update_from_tab(bmap, t) ==
    IF TabEmpty(t) THEN isl_basic_map_set_to_empty(bmap)
    ELSE LET ne == Len(bmap.eq)
             n == Len(bmap.ineq)
         IN  Let([k \in 1..n |-> isl_tab_is_equality(t, ne + k - 1)],
                 LAMBDA isEq :
                 [bmap EXCEPT
                     !.eq = Pick(bmap.ineq, isEq, 1) \o bmap.eq,
                     !.ineq = Pick(bmap.ineq,
                                   [k \in 1..n |->
                                       /\ ~isEq[k]
                                       /\ ~isl_tab_is_redundant(t, ne + k - 1)],
                                   1)])

\* ------------------------------------------------ status of a constraint --
\* status_in, isl_coalesce.c:34-46; "bad" makes isl_tab_ineq_type fail
status_in(ineq, tab, bad) ==
    Let(IF bad THEN "error" ELSE isl_tab_ineq_type(tab, ineq), LAMBDA type :
        CASE type = "redundant" -> STATUS_VALID
          [] type = "separate" -> STATUS_SEPARATE
          [] type = "cut" -> STATUS_CUT
          [] type = "adj_eq" -> STATUS_ADJ_EQ
          [] type = "adj_ineq" -> STATUS_ADJ_INEQ
          [] OTHER -> STATUS_ERROR)

\* eq_status_in: entry 2k is the status of the negated equality k, entry
\* 2k+1 that of the equality itself (0-based); the loop stops after the
\* first equality with a separate status.  flt = "eq_status_in" makes the
\* first classification fail, and then NULL is returned.
eq_status_in(bmap_i, tab_j, flt) ==
    LET n == Len(bmap_i.eq)
    IN  IF n > 0 /\ flt = "eq_status_in"
        THEN [null |-> TRUE, st |-> <<>>]
        ELSE
        Let([m \in 1..(2 * n) |->
                status_in(IF m % 2 = 1
                          THEN isl_seq_neg(bmap_i.eq[(m + 1) \div 2])
                          ELSE bmap_i.eq[m \div 2], tab_j, FALSE)],
            LAMBDA full :
        Let({k \in 1..n : full[2 * k - 1] = STATUS_SEPARATE
                          \/ full[2 * k] = STATUS_SEPARATE},
            LAMBDA sep :
        Let(IF sep = {} THEN n ELSE Min(sep), LAMBDA stop :
            [null |-> FALSE,
             st |-> [m \in 1..(2 * n) |->
                       IF m <= 2 * stop THEN full[m] ELSE STATUS_UNSET]])))

\* ineq_status_in: a constraint that is redundant in its own tableau is
\* STATUS_REDUNDANT; the loop stops at the first separate inequality.
ineq_status_in(bmap_i, tab_i, tab_j, flt) ==
    LET n == Len(bmap_i.ineq)
        ne == Len(bmap_i.eq)
    IN  IF flt = "ineq_status_in"
           /\ \E k \in 1..n : ~isl_tab_is_redundant(tab_i, ne + k - 1)
        THEN [null |-> TRUE, st |-> <<>>]
        ELSE
        Let([k \in 1..n |->
                IF isl_tab_is_redundant(tab_i, ne + k - 1)
                THEN STATUS_REDUNDANT
                ELSE status_in(bmap_i.ineq[k], tab_j, FALSE)],
            LAMBDA full :
        Let({k \in 1..n : full[k] = STATUS_SEPARATE}, LAMBDA sep :
        Let(IF sep = {} THEN n ELSE Min(sep), LAMBDA stop :
            [null |-> FALSE,
             st |-> [k \in 1..n |->
                       IF k <= stop THEN full[k] ELSE STATUS_UNSET]])))

any(con, len, status) == \E k \in 1..len : k <= Len(con) /\ con[k] = status

count(con, len, status) ==
    Cardinality({k \in 1..len : k <= Len(con) /\ con[k] = status})

all(con, len, status) ==
    \A k \in 1..len :
        k <= Len(con) => (con[k] = STATUS_REDUNDANT \/ con[k] = status)

\* the result of an attempt on a pair: changed is 1, 0 or -1 as in the C
\* code, m is the map and the tableaus it leaves, rule names the function
\* that decided, by says how the pair was replaced, err says whether a
\* classification gave STATUS_ERROR and the caller went on with 0
Res(c, m, rule, by) ==
    [changed |-> c, p |-> m.p, tabs |-> m.tabs, rule |-> rule, by |-> by,
     err |-> FALSE]

\* a drop that moves the last basic map and leaves its tableau behind
drop_bmap_only(m, k) ==
    LET n == Len(m.p)
    IN  [p |-> SubSeq(IF k # n - 1 THEN [m.p EXCEPT ![k + 1] = m.p[n]]
                      ELSE m.p, 1, n - 1),
         tabs |-> [m.tabs EXCEPT ![n] = NullTab]]

\* a drop that forgets to remove the basic map
drop_nothing(m, k) == m

\* drop, isl_coalesce.c:149-160 (k is 0-based)
drop(m, k) ==
    LET n == Len(m.p)
    IN  [p |-> SubSeq(IF k # n - 1 THEN [m.p EXCEPT ![k + 1] = m.p[n]]
                      ELSE m.p, 1, n - 1),
         tabs |-> [(IF k # n - 1 THEN [m.tabs EXCEPT ![k + 1] = m.tabs[n]]
                    ELSE m.tabs) EXCEPT ![n] = NullTab]]

\* an exchange that leaves the two basic maps where they are
exchange_nothing(m, a, b) == m

\* exchange, isl_coalesce.c:164-176
exchange(m, a, b) ==
    [p |-> [m.p EXCEPT ![a + 1] = m.p[b + 1], ![b + 1] = m.p[a + 1]],
     tabs |-> [m.tabs EXCEPT ![a + 1] = m.tabs[b + 1],
                             ![b + 1] = m.tabs[a + 1]]]

\* a fused basic map that is rational when one of its sources is
FusedRationalEither(bi, bj) == bi.rational \/ bj.rational

\* the rational flag of the basic map that fuse builds from bi and bj
FusedRational(bi, bj) == bi.rational /\ bj.rational

\* fuse, isl_coalesce.c:186-282
RECURSIVE fuse(_, _, _, _, _, _, _, _, _)
fuse(m, a, b, eq_i, ineq_i, eq_j, ineq_j, extra, detect_equalities) ==
    IF b < a
    THEN fuse(m, b, a, eq_j, ineq_j, eq_i, ineq_i, extra, detect_equalities)
    ELSE
    LET bi == m.p[a + 1]
        bj == m.p[b + 1]
        keep_eq_i == [k \in 1..Len(bi.eq) |->
                        eq_i = NULL \/ (eq_i[2 * k - 1] = STATUS_VALID
                                        /\ eq_i[2 * k] = STATUS_VALID)]
        keep_eq_j == [k \in 1..Len(bj.eq) |->
                        eq_j = NULL \/ (eq_j[2 * k - 1] = STATUS_VALID
                                        /\ eq_j[2 * k] = STATUS_VALID)]
        keep_i == [k \in 1..Len(bi.ineq) |-> ineq_i[k] = STATUS_VALID]
        keep_j == [k \in 1..Len(bj.ineq) |-> ineq_j[k] = STATUS_VALID]
        detect(fused) == IF detect_equalities
                         THEN isl_basic_map_detect_inequality_pairs(fused)
                         ELSE fused
    IN  Let([isl_basic_map_gauss(detect(
                [isl_basic_map_alloc_space EXCEPT
                    !.eq = Pick(bi.eq, keep_eq_i, 1)
                           \o Pick(bj.eq, keep_eq_j, 1),
                    !.ineq = Pick(bi.ineq, keep_i, 1)
                             \o Pick(bj.ineq, keep_j, 1) \o extra]))
                EXCEPT !.rational = FusedRational(bi, bj)],
            LAMBDA fused :
        Res(1, drop([p |-> [m.p EXCEPT ![a + 1] = fused],
                     tabs |-> [m.tabs EXCEPT ![a + 1] =
                                 isl_tab_detect_redundant(
                                    isl_tab_from_basic_map(fused))]], b),
            "fuse", "fuse"))

\* check_facets, isl_coalesce.c:313-350: on a rational copy of tabs[i], is
\* every cut constraint of j valid on every cut facet of i?  A status that
\* is not STATUS_VALID (STATUS_ERROR included) ends the test with 0.
check_facets(m, a, b, ineq_i, ineq_j, flt) ==
    LET bi == m.p[a + 1]
        bj == m.p[b + 1]
        n_eq == Len(bi.eq)
        snap == isl_tab_snap(m.tabs[a + 1])
        rat == isl_tab_mark_rational(m.tabs[a + 1])
        snap2 == isl_tab_snap(rat)
        cut_i == {k \in 1..Len(bi.ineq) : ineq_i[k] = STATUS_CUT}
        cut_j == {l \in 1..Len(bj.ineq) : ineq_j[l] = STATUS_CUT}
        failed == \E k \in cut_i : \E l \in cut_j :
                     status_in(bj.ineq[l],
                               isl_tab_select_facet(rat, n_eq + k - 1),
                               flt = "check_facets" /\ k = Min(cut_i)
                                                    /\ l = Min(cut_j))
                        # STATUS_VALID
        \* the tableau after the loop: every facet is rolled back to snap2
        looped == isl_tab_rollback(
                    isl_tab_select_facet(rat, n_eq + Min(cut_i) - 1), snap2)
    IN  IF failed
        THEN [Res(0, [m EXCEPT !.tabs[a + 1] = isl_tab_rollback(looped, snap)],
                  "check_facets", "none") EXCEPT
                !.err = (flt = "check_facets" /\ cut_i # {} /\ cut_j # {})]
        ELSE [fuse(m, a, b, NULL, ineq_i, NULL, ineq_j, <<>>, FALSE)
                EXCEPT !.rule = "check_facets"]

\* contains, isl_coalesce.c:355-381: the equalities are negated in place
\* before each classification; on an early return after the first of the
\* two classifications of equality k the row stays negated.
\* The result is the answer, the basic map as it is left, and whether a
\* classification gave STATUS_ERROR.
contains(bmap, ineq_i, tab, flt) ==
    LET n_eq == Len(bmap.eq)
        bad == flt = "contains"
        live == {k \in 1..Len(bmap.ineq) : ineq_i[k] # STATUS_REDUNDANT}
        failIneq == \E k \in live :
                        status_in(bmap.ineq[k], tab,
                                  bad /\ n_eq = 0 /\ k = Min(live))
                            # STATUS_VALID
    IN  Let([m \in 1..(2 * n_eq) |->
                IF m % 2 = 1
                THEN status_in(isl_seq_neg(bmap.eq[(m + 1) \div 2]), tab,
                               bad /\ m = 1)
                ELSE status_in(bmap.eq[m \div 2], tab, FALSE)],
            LAMBDA S :
        Let({k \in 1..n_eq : S[2 * k - 1] # STATUS_VALID
                             \/ S[2 * k] # STATUS_VALID},
            LAMBDA failEq :
            IF failEq # {}
            THEN [res |-> 0,
                  bmap |-> IF S[2 * Min(failEq) - 1] # STATUS_VALID
                           THEN [bmap EXCEPT !.eq[Min(failEq)] =
                                    isl_seq_neg(bmap.eq[Min(failEq)])]
                           ELSE bmap,
                  err |-> bad]
            ELSE [res |-> IF failIneq THEN 0 ELSE 1, bmap |-> bmap,
                  err |-> bad /\ live # {}]))

\* the loop of is_adj_ineq_extension that adds the valid inequalities of
\* basic map j to the tableau, isl_coalesce.c:446-451
RECURSIVE AddAll(_, _, _)
AddAll(t, rows, l) ==
    IF l > Len(rows) THEN t
    ELSE AddAll(isl_tab_add_ineq(t, rows[l]), rows, l + 1)

\* is_adj_ineq_extension, isl_coalesce.c:420-468
is_adj_ineq_extension(m, a, b, eq_i, ineq_i, eq_j, ineq_j, flt) ==
    LET bi == m.p[a + 1]
        bj == m.p[b + 1]
        n_eq == Len(bi.eq)
        adj == {k \in 1..Len(bi.ineq) : ineq_i[k] = STATUS_ADJ_INEQ}
    IN  IF adj = {} THEN Res(-1, m, "is_adj_ineq_extension", "none")
        ELSE
        LET k == Min(adj)
            snap == isl_tab_snap(m.tabs[a + 1])
            t1 == isl_tab_unrestrict(m.tabs[a + 1], n_eq + k - 1)
            opp == isl_int_add_ui(isl_seq_neg(bi.ineq[k]), -1)
            valid_j == Pick(bj.ineq,
                            [l \in 1..Len(bj.ineq) |->
                                ineq_j[l] = STATUS_VALID], 1)
        IN  Let(AddAll(isl_tab_add_ineq(t1, opp), valid_j, 1), LAMBDA t3 :
            Let(contains(bj, ineq_j, t3, flt), LAMBDA c :
            Let([p |-> [m.p EXCEPT ![b + 1] = c.bmap], tabs |-> m.tabs],
                LAMBDA m1 :
                IF c.res # 0
                THEN [fuse([m1 EXCEPT !.tabs[a + 1] = t3], a, b,
                           eq_i, ineq_i, eq_j, ineq_j, <<>>, FALSE)
                        EXCEPT !.rule = "is_adj_ineq_extension"]
                ELSE [Res(0, [m1 EXCEPT !.tabs[a + 1] =
                                    isl_tab_rollback(t3, snap)],
                          "is_adj_ineq_extension", "none")
                        EXCEPT !.err = c.err])))

\* a check_adj_ineq that never merges
check_adj_ineq_never(m, a, b, eq_i, ineq_i, eq_j, ineq_j, flt) ==
    Res(0, m, "check_adj_ineq", "none")

\* check_adj_ineq, isl_coalesce.c:502-532
check_adj_ineq(m, a, b, eq_i, ineq_i, eq_j, ineq_j, flt) ==
    LET bi == m.p[a + 1]
        bj == m.p[b + 1]
        count_i == count(ineq_i, Len(bi.ineq), STATUS_ADJ_INEQ)
        count_j == count(ineq_j, Len(bj.ineq), STATUS_ADJ_INEQ)
        cut_i == any(eq_i, 2 * Len(bi.eq), STATUS_CUT)
                 \/ any(ineq_i, Len(bi.ineq), STATUS_CUT)
        cut_j == any(eq_j, 2 * Len(bj.eq), STATUS_CUT)
                 \/ any(ineq_j, Len(bj.ineq), STATUS_CUT)
    IN  IF count_i # 1 /\ count_j # 1
        THEN Res(0, m, "check_adj_ineq", "none")
        ELSE IF ~cut_i /\ ~cut_j /\ count_i = 1 /\ count_j = 1
        THEN [fuse(m, a, b, NULL, ineq_i, NULL, ineq_j, <<>>, FALSE)
                EXCEPT !.rule = "check_adj_ineq"]
        ELSE IF count_i = 1 /\ ~cut_i
        THEN is_adj_ineq_extension(m, a, b, eq_i, ineq_i, eq_j, ineq_j, flt)
        ELSE IF count_j = 1 /\ ~cut_j
        THEN is_adj_ineq_extension(m, b, a, eq_j, ineq_j, eq_i, ineq_i, flt)
        ELSE Res(0, m, "check_adj_ineq", "none")

\* is_adj_eq_extension, isl_coalesce.c:553-591 (k is 0-based)
is_adj_eq_extension(m, a, b, k, eq_i, ineq_i, eq_j, ineq_j, flt) ==
    LET bi == m.p[a + 1]
        bj == m.p[b + 1]
        n_eq == Len(bi.eq)
    IN  IF isl_tab_is_equality(m.tabs[a + 1], n_eq + k)
        THEN Res(0, m, "is_adj_eq_extension", "none")
        ELSE
        LET snap == isl_tab_snap(m.tabs[a + 1])
            relaxed == isl_tab_relax(m.tabs[a + 1], n_eq + k)
            snap2 == isl_tab_snap(relaxed)
            facet == isl_tab_select_facet(relaxed, n_eq + k)
        IN  Let(contains(bj, ineq_j, facet, flt), LAMBDA super :
            Let([p |-> [m.p EXCEPT ![b + 1] = super.bmap], tabs |-> m.tabs],
                LAMBDA m1 :
            Let([p |-> [m1.p EXCEPT ![a + 1].ineq[k + 1] =
                           isl_int_add_ui(bi.ineq[k + 1], 1)],
                 tabs |-> [m1.tabs EXCEPT ![a + 1] =
                             isl_tab_rollback(facet, snap2)]],
                LAMBDA m2 :
                IF super.res # 0
                THEN IF b < a
                     THEN Res(1, drop(exchange(m2, a, b), a),
                              "is_adj_eq_extension", "relax")
                     ELSE Res(1, drop(m2, b), "is_adj_eq_extension", "relax")
                ELSE [Res(0, [m1 EXCEPT !.tabs[a + 1] =
                                    isl_tab_rollback(facet, snap)],
                          "is_adj_eq_extension", "none")
                        EXCEPT !.err = super.err])))

\* isl_set_wrap_facet(set, facet, ridge): in one dimension the hyperplanes
\* of facet and ridge are parallel and have no ridge in common to turn
\* around, so the facet comes back unchanged
isl_set_wrap_facet(set, facet, ridge) == facet

\* set_from_updated_bmap, isl_coalesce.c:806-816
set_from_updated_bmap(bmap, tab) ==
    << isl_basic_map_update_from_tab(bmap, tab) >>

\* add_wraps, isl_coalesce.c:707-765: the rows of the wrapping matrix after
\* wrapping the non-redundant constraints of bmap around bound; the empty
\* matrix (n_row = 0) when some wrapped constraint is bound itself
add_wraps(rows, bmap, tab, bound, set) ==
    LET n_eq == Len(bmap.eq)
        useI == [l \in 1..Len(bmap.ineq) |->
                    /\ ~isl_seq_is_neg(bound, bmap.ineq[l])
                    /\ ~isl_seq_eq(bound, bmap.ineq[l])
                    /\ ~isl_tab_is_redundant(tab, n_eq + l - 1)]
        useE == [l \in 1..n_eq |->
                    /\ ~isl_seq_is_neg(bound, bmap.eq[l])
                    /\ ~isl_seq_eq(bound, bmap.eq[l])]
        wrapI == [l \in 1..Len(bmap.ineq) |->
                    isl_set_wrap_facet(set, bound, bmap.ineq[l])]
        wrapE == [l \in 1..(2 * n_eq) |->
                    isl_set_wrap_facet(set, bound,
                        IF l % 2 = 1 THEN isl_seq_neg(bmap.eq[(l + 1) \div 2])
                        ELSE bmap.eq[l \div 2])]
        unbounded ==
            \/ \E l \in 1..Len(bmap.ineq) : useI[l] /\ isl_seq_eq(wrapI[l], bound)
            \/ \E l \in 1..(2 * n_eq) :
                  useE[(l + 1) \div 2] /\ isl_seq_eq(wrapE[l], bound)
    IN  IF unbounded THEN <<>>
        ELSE rows \o Pick(wrapI, useI, 1)
                  \o Pick(wrapE, [l \in 1..(2 * n_eq) |-> useE[(l + 1) \div 2]], 1)

\* check_wraps, isl_coalesce.c:771-788: -1 on an error, else the rows, none
\* when a row from first on (0-based) is not redundant for tab
check_wraps(rows, first, tab, flt) ==
    LET new == (first + 1)..Len(rows)
    IN  IF new # {} /\ flt = "check_wraps" THEN [err |-> TRUE, rows |-> rows]
        ELSE IF \E w \in new : isl_tab_ineq_type(tab, rows[w]) # "redundant"
        THEN [err |-> FALSE, rows |-> <<>>]
        ELSE [err |-> FALSE, rows |-> rows]

\* can_wrap_in_facet, isl_coalesce.c:836-908 (k is 0-based)
can_wrap_in_facet(m, a, b, k, eq_i, ineq_i, eq_j, ineq_j, flt) ==
    LET bi == m.p[a + 1]
        bj == m.p[b + 1]
        set_i == set_from_updated_bmap(bi, m.tabs[a + 1])
        set_j == set_from_updated_bmap(bj, m.tabs[b + 1])
        bound == isl_int_add_ui(bi.ineq[k + 1], 1)
        snap == isl_tab_snap(m.tabs[a + 1])
        facet == isl_tab_detect_redundant(
                    isl_tab_select_facet(m.tabs[a + 1], Len(bi.eq) + k))
        m1 == [m EXCEPT !.tabs[a + 1] = isl_tab_rollback(facet, snap)]
    IN  Let(add_wraps(<<bound>>, bj, m.tabs[b + 1], bound, set_i), LAMBDA w1 :
        Let(check_wraps(add_wraps(w1, bi, facet, isl_seq_neg(bi.ineq[k + 1]),
                                  set_j),
                        Len(w1), m1.tabs[a + 1], flt), LAMBDA w3 :
            IF w1 = <<>> THEN Res(0, m, "can_wrap_in_facet", "none")
            ELSE IF w3.err THEN Res(-1, m1, "can_wrap_in_facet", "none")
            ELSE IF w3.rows = <<>> THEN Res(0, m1, "can_wrap_in_facet", "none")
            ELSE [fuse(m1, a, b, eq_i, ineq_i, eq_j, ineq_j, w3.rows, FALSE)
                    EXCEPT !.rule = "can_wrap_in_facet"]))

\* the loop of wrap_in_facets: the wrapping matrix after cuts[k..n-1] and
\* tabs[j] as the loop leaves it, rolled back to snap in every iteration
RECURSIVE WrapCuts(_, _, _, _, _, _, _)
WrapCuts(rows, cuts, k, bi, bj, tab_j, snap) ==
    IF k > Len(cuts) THEN [rows |-> rows, done |-> TRUE, tab |-> tab_j]
    ELSE LET set == <<bi, bj>>
             row == isl_int_add_ui(bi.ineq[cuts[k] + 1], 1)
         IN  Let(isl_tab_detect_redundant(isl_tab_add_eq(tab_j, row)),
                 LAMBDA t :
             Let(IF TabEmpty(t)
                 THEN Append(rows, isl_int_add_ui(row, -1))
                 ELSE add_wraps(Append(rows, row), bj, t, row, set),
                 LAMBDA next :
                 IF next = <<>>
                 THEN [rows |-> <<>>, done |-> FALSE,
                       tab |-> isl_tab_rollback(t, snap)]
                 ELSE WrapCuts(next, cuts, k + 1, bi, bj,
                               isl_tab_rollback(t, snap), snap)))

\* wrap_in_facets, isl_coalesce.c:930-996
wrap_in_facets(m, a, b, cuts, eq_i, ineq_i, eq_j, ineq_j) ==
    Let(WrapCuts(<<>>, cuts, 1, m.p[a + 1], m.p[b + 1], m.tabs[b + 1],
                 isl_tab_snap(m.tabs[b + 1])),
        LAMBDA w :
        IF w.done
        THEN [fuse([m EXCEPT !.tabs[b + 1] = w.tab], a, b,
                   eq_i, ineq_i, eq_j, ineq_j, w.rows, FALSE)
                EXCEPT !.rule = "wrap_in_facets"]
        ELSE Res(0, [m EXCEPT !.tabs[b + 1] = w.tab],
                 "wrap_in_facets", "none"))

\* the indices (0-based, in order) of a set of 1-based positions
RECURSIVE Ordered(_)
Ordered(S) == IF S = {} THEN <<>> ELSE <<Min(S) - 1>> \o Ordered(S \ {Min(S)})

\* can_wrap_in_set, isl_coalesce.c:1057-1104: never on rational basic maps
can_wrap_in_set(m, a, b, eq_i, ineq_i, eq_j, ineq_j, flt) ==
    LET bi == m.p[a + 1]
        bj == m.p[b + 1]
        cut == {k \in 1..Len(bi.ineq) : ineq_i[k] = STATUS_CUT}
        RelaxedOk(k) ==
            isl_tab_ineq_type(m.tabs[b + 1], isl_int_add_ui(bi.ineq[k], 1))
                = "redundant"
    IN  IF bi.rational \/ bj.rational
        THEN Res(0, m, "can_wrap_in_set", "none")
        ELSE IF cut = {} THEN Res(0, m, "can_wrap_in_set", "none")
        ELSE IF flt = "can_wrap_in_set"
        THEN Res(-1, m, "can_wrap_in_set", "none")
        ELSE IF \A k \in cut : RelaxedOk(k)
        THEN wrap_in_facets(m, a, b, Ordered(cut), eq_i, ineq_i, eq_j, ineq_j)
        ELSE Res(0, m, "can_wrap_in_set", "none")

\* check_wrap, isl_coalesce.c:1110-1125
check_wrap(m, a, b, eq_i, ineq_i, eq_j, ineq_j, flt) ==
    LET bi == m.p[a + 1]
        bj == m.p[b + 1]
    IN  Let(IF ~any(eq_i, 2 * Len(bi.eq), STATUS_CUT)
            THEN can_wrap_in_set(m, a, b, eq_i, ineq_i, eq_j, ineq_j, flt)
            ELSE Res(0, m, "check_wrap", "none"), LAMBDA r1 :
            IF r1.changed # 0 THEN r1
            ELSE IF ~any(eq_j, 2 * Len(bj.eq), STATUS_CUT)
            THEN can_wrap_in_set(m, b, a, eq_j, ineq_j, eq_i, ineq_i, flt)
            ELSE Res(0, m, "check_wrap", "none"))

\* check_adj_eq, isl_coalesce.c:1137-1181
RECURSIVE check_adj_eq(_, _, _, _, _, _, _, _)
check_adj_eq(m, a, b, eq_i, ineq_i, eq_j, ineq_j, flt) ==
    LET bi == m.p[a + 1]
        bj == m.p[b + 1]
    IN  IF any(eq_i, 2 * Len(bi.eq), STATUS_ADJ_INEQ)
           /\ any(eq_j, 2 * Len(bj.eq), STATUS_ADJ_INEQ)
        THEN Res(0, m, "check_adj_eq", "none")
        ELSE IF any(eq_i, 2 * Len(bi.eq), STATUS_ADJ_INEQ)
        THEN check_adj_eq(m, b, a, eq_j, ineq_j, eq_i, ineq_i, flt)
        ELSE IF any(eq_i, 2 * Len(bi.eq), STATUS_CUT)
        THEN Res(0, m, "check_adj_eq", "none")
        ELSE IF any(ineq_i, Len(bi.ineq), STATUS_CUT)
        THEN Res(0, m, "check_adj_eq", "none")
        ELSE IF \/ count(ineq_i, Len(bi.ineq), STATUS_ADJ_EQ) # 1
                \/ any(ineq_j, Len(bj.ineq), STATUS_ADJ_EQ)
                \/ any(ineq_i, Len(bi.ineq), STATUS_ADJ_INEQ)
                \/ any(ineq_j, Len(bj.ineq), STATUS_ADJ_INEQ)
        THEN Res(0, m, "check_adj_eq", "none")
        ELSE
        LET k == Min({l \in 1..Len(bi.ineq) : ineq_i[l] = STATUS_ADJ_EQ}) - 1
        IN  Let(is_adj_eq_extension(m, a, b, k,
                                    eq_i, ineq_i, eq_j, ineq_j, flt),
                LAMBDA r :
            Let([p |-> r.p, tabs |-> r.tabs], LAMBDA m1 :
                IF r.changed # 0 THEN r
                ELSE IF count(eq_j, 2 * Len(bj.eq), STATUS_ADJ_INEQ) # 1
                THEN [Res(0, m1, "check_adj_eq", "none") EXCEPT !.err = r.err]
                ELSE [can_wrap_in_facet(m1, a, b, k,
                                        eq_i, ineq_i, eq_j, ineq_j, flt)
                        EXCEPT !.err = r.err]))

\* check_eq_adj_eq, isl_coalesce.c:1201-1270
check_eq_adj_eq(m, a, b, eq_i, ineq_i, eq_j, ineq_j) ==
    LET bi == m.p[a + 1]
        bj == m.p[b + 1]
        detect_equalities ==
            count(eq_i, 2 * Len(bi.eq), STATUS_ADJ_EQ) # 1
        k == Min({l \in 1..(2 * Len(bi.eq)) : eq_i[l] = STATUS_ADJ_EQ}) - 1
        set_i == set_from_updated_bmap(bi, m.tabs[a + 1])
        set_j == set_from_updated_bmap(bj, m.tabs[b + 1])
        bound == isl_int_add_ui(
                    IF k % 2 = 0 THEN isl_seq_neg(bi.eq[(k \div 2) + 1])
                    ELSE bi.eq[(k \div 2) + 1], 1)
        bound2 == isl_seq_neg(isl_int_add_ui(bound, -1))
    IN  Let(add_wraps(<<bound>>, bj, m.tabs[b + 1], bound, set_i), LAMBDA w1 :
        Let(add_wraps(Append(w1, bound2), bi, m.tabs[a + 1], bound2, set_j),
            LAMBDA w2 :
            IF w1 = <<>> \/ w2 = <<>>
            THEN Res(0, m, "check_eq_adj_eq", "none")
            ELSE [fuse(m, a, b, eq_i, ineq_i, eq_j, ineq_j, w2,
                       detect_equalities)
                    EXCEPT !.rule = "check_eq_adj_eq"]))

\* coalesce_local_pair, isl_coalesce.c:1354-1442 (a and b are 0-based);
\* flt names the function in which a classification fails, "none" for none
coalesce_local_pair(m, a, b, flt) ==
    Let(eq_status_in(m.p[a + 1], m.tabs[b + 1], flt), LAMBDA e_i :
    Let(eq_status_in(m.p[b + 1], m.tabs[a + 1], flt), LAMBDA e_j :
    Let(ineq_status_in(m.p[a + 1], m.tabs[a + 1], m.tabs[b + 1], flt),
        LAMBDA q_i :
    Let(ineq_status_in(m.p[b + 1], m.tabs[b + 1], m.tabs[a + 1], flt),
        LAMBDA q_j :
    LET n_eq_i == Len(m.p[a + 1].eq)
        n_eq_j == Len(m.p[b + 1].eq)
        n_ineq_i == Len(m.p[a + 1].ineq)
        n_ineq_j == Len(m.p[b + 1].ineq)
        eq_i == e_i.st
        eq_j == e_j.st
        ineq_i == q_i.st
        ineq_j == q_j.st
        error == Res(-1, m, "coalesce_local_pair", "none")
        done == Res(0, m, "separate", "none")
    IN  IF n_eq_i # 0 /\ e_i.null THEN error
        ELSE IF any(eq_i, 2 * n_eq_i, STATUS_ERROR) THEN error
        ELSE IF any(eq_i, 2 * n_eq_i, STATUS_SEPARATE) THEN done
        ELSE IF n_eq_j # 0 /\ e_j.null THEN error
        ELSE IF any(eq_j, 2 * n_eq_j, STATUS_ERROR) THEN error
        ELSE IF any(eq_j, 2 * n_eq_j, STATUS_SEPARATE) THEN done
        ELSE IF n_ineq_i # 0 /\ q_i.null THEN error
        ELSE IF any(ineq_i, n_ineq_i, STATUS_ERROR) THEN error
        ELSE IF any(ineq_i, n_ineq_i, STATUS_SEPARATE) THEN done
        ELSE IF n_ineq_j # 0 /\ q_j.null THEN error
        ELSE IF any(ineq_j, n_ineq_j, STATUS_ERROR) THEN error
        ELSE IF any(ineq_j, n_ineq_j, STATUS_SEPARATE) THEN done
        ELSE IF all(eq_i, 2 * n_eq_i, STATUS_VALID)
                /\ all(ineq_i, n_ineq_i, STATUS_VALID)
        THEN Res(1, drop(m, b), "subsumed_j", "drop")
        ELSE IF all(eq_j, 2 * n_eq_j, STATUS_VALID)
                /\ all(ineq_j, n_ineq_j, STATUS_VALID)
        THEN Res(1, drop(m, a), "subsumed_i", "drop")
        ELSE IF any(eq_i, 2 * n_eq_i, STATUS_ADJ_EQ)
        THEN check_eq_adj_eq(m, a, b, eq_i, ineq_i, eq_j, ineq_j)
        ELSE IF any(eq_j, 2 * n_eq_j, STATUS_ADJ_EQ)
        THEN check_eq_adj_eq(m, b, a, eq_j, ineq_j, eq_i, ineq_i)
        ELSE IF any(eq_i, 2 * n_eq_i, STATUS_ADJ_INEQ)
                \/ any(eq_j, 2 * n_eq_j, STATUS_ADJ_INEQ)
        THEN check_adj_eq(m, a, b, eq_i, ineq_i, eq_j, ineq_j, flt)
        ELSE IF any(ineq_i, n_ineq_i, STATUS_ADJ_EQ)
                \/ any(ineq_j, n_ineq_j, STATUS_ADJ_EQ)
        THEN Res(0, m, "BAD ADJ INEQ", "none")
        ELSE IF any(ineq_i, n_ineq_i, STATUS_ADJ_INEQ)
                \/ any(ineq_j, n_ineq_j, STATUS_ADJ_INEQ)
        THEN check_adj_ineq(m, a, b, eq_i, ineq_i, eq_j, ineq_j, flt)
        ELSE
        Let(IF ~any(eq_i, 2 * n_eq_i, STATUS_CUT)
               /\ ~any(eq_j, 2 * n_eq_j, STATUS_CUT)
            THEN check_facets(m, a, b, ineq_i, ineq_j, flt)
            ELSE Res(0, m, "only cuts", "none"), LAMBDA r :
            IF r.changed # 0 THEN r
            ELSE [check_wrap([p |-> r.p, tabs |-> r.tabs], a, b,
                             eq_i, ineq_i, eq_j, ineq_j, flt)
                    EXCEPT !.err = r.err])))))

\* same_divs, isl_coalesce.c:1449-1477: the modelled basic maps have no
\* divs (n_div = 0), so they live in the same local space
same_divs(bmap1, bmap2) == 1

\* coalesce_pair, isl_coalesce.c:1614-1626
coalesce_pair(m, a, b, flt) ==
    IF same_divs(m.p[a + 1], m.p[b + 1]) # 0
    THEN coalesce_local_pair(m, a, b, flt)
    ELSE Res(0, m, "check_coalesce_subset", "none")

\* ----------------------------------------------------------- the inputs --
\* the window in which point sets are compared
Window == (0 - 2)..(MaxCoord + 2)

\* the interval lo <= x <= hi, given by a lower and an upper bound
Interval(lo, hi, rat) ==
    [eq |-> <<>>, ineq |-> << <<-lo, 1>>, <<hi, -1>> >>, rational |-> rat,
     no_implicit |-> FALSE, no_redundant |-> FALSE]

\* the point x = v, given by an equality
Point(v, rat) ==
    [eq |-> << <<-v, 1>> >>, ineq |-> <<>>, rational |-> rat,
     no_implicit |-> FALSE, no_redundant |-> FALSE]

\* the non-empty integer intervals
Intervals ==
    {Interval(c[1], c[2], FALSE) :
        c \in {d \in (0..MaxCoord) \X (0..MaxCoord) : d[1] <= d[2]}}

\* every kind of basic map: the non-empty intervals, the empty interval
\* 1 <= x <= 0 and the points given by an equality, rational or not
InputBmaps ==
    {Interval(c[1], c[2], r) :
        c \in {d \in (0..MaxCoord) \X (0..MaxCoord) :
                  d[1] <= d[2] \/ d = <<1, 0>>},
        r \in BOOLEAN}
    \cup {Point(v, r) : v \in 0..MaxCoord, r \in BOOLEAN}

\* the input maps: up to MaxN integer intervals, or a pair of basic maps
\* of any kind
InputMaps ==
    UNION {[1..n -> Intervals] : n \in 0..MaxN} \cup [1..2 -> InputBmaps]

\* ------------------------------------------------------ isl_map_coalesce --
\* isl_tab_detect_implicit_equalities followed by
\* isl_tab_make_equalities_explicit: the inequalities that are zero on the
\* whole tableau are moved in front of the equalities, keeping their order
isl_tab_make_equalities_explicit(bmap) ==
    Let(isl_tab_from_basic_map(bmap), LAMBDA t :
    Let([k \in 1..Len(bmap.ineq) |->
            isl_tab_is_equality(t, Len(bmap.eq) + k - 1)], LAMBDA isEq :
        IF TabEmpty(t) THEN bmap
        ELSE [bmap EXCEPT
                !.eq = Pick(bmap.ineq, isEq, 1) \o bmap.eq,
                !.ineq = Pick(bmap.ineq,
                              [k \in 1..Len(bmap.ineq) |-> ~isEq[k]], 1)]))

\* the body of the first loop of isl_map_coalesce, isl_coalesce.c:1686-1700
Prepare(bmap) ==
    Let(IF bmap.no_implicit THEN bmap
        ELSE isl_tab_make_equalities_explicit(bmap), LAMBDA b1 :
    Let(isl_tab_from_basic_map(b1), LAMBDA t1 :
        [bmap |-> b1,
         tab |-> IF b1.no_redundant THEN t1
                 ELSE isl_tab_detect_redundant(t1)]))

\* the first loop of isl_map_coalesce: the basic maps and their tableaus
RECURSIVE PrepareAll(_, _)
PrepareAll(q, k) ==
    IF k > Len(q) THEN [p |-> <<>>, tabs |-> <<>>]
    ELSE Let(Prepare(q[k]), LAMBDA one :
         Let(PrepareAll(q, k + 1), LAMBDA rest :
             [p |-> <<one.bmap>> \o rest.p,
              tabs |-> <<one.tab>> \o rest.tabs]))

\* the loop of isl_coalesce.c:1701-1703: drop the basic maps with an empty
\* tableau, from the last one to the first
RECURSIVE DropEmpty(_, _)
DropEmpty(m, k) ==
    IF k < 0 THEN m
    ELSE DropEmpty(IF TabEmpty(m.tabs[k + 1]) THEN drop(m, k) ELSE m, k - 1)

\* the pair (i, j) of the next call of coalesce_pair in coalesce(), given
\* the values of i and j at the head of the inner loop; i = -1 when the
\* outer loop has ended
RECURSIVE NextPair(_, _, _)
NextPair(a, b, n) ==
    IF a < 0 THEN <<-1, 0>>
    ELSE IF b < n THEN <<a, b>>
    ELSE NextPair(a - 1, a, n)

\* a loop that leaves the inner loop after a change instead of restarting
NextAfterOuter(changed, a, b, n) ==
    IF changed # 0 THEN NextPair(a - 1, a, n) ELSE NextPair(a, b + 1, n)

\* a loop that goes on with the next j after a change instead of restarting
NextAfterNoRestart(changed, a, b, n) == NextPair(a, b + 1, n)

\* the loop control of coalesce() after a call of coalesce_pair that
\* returned changed >= 0: "goto restart" or the next j
NextAfter(changed, a, b, n) ==
    IF changed # 0 THEN NextPair(a, a + 1, n) ELSE NextPair(a, b + 1, n)

NoLast == [changed |-> 0, rule |-> "none", by |-> "none", a |-> 0, b |-> 0,
           rat_i |-> FALSE, rat_j |-> FALSE, rat_res |-> FALSE, flt |-> "none",
           err |-> FALSE, n |-> 0]

CInit ==
    /\ input \in InputMaps
    /\ p = input
    /\ tabs = <<>>
    /\ i = 0
    /\ j = 0
    /\ pc = "start"
    /\ run = 1
    /\ out1 = <<>>
    /\ n0 = 0
    /\ restarts = 0
    /\ last = NoLast
    /\ ret = "none"
    /\ SchedIdle

\* isl_map_coalesce up to the call of coalesce(), isl_coalesce.c:1668-1703
Start ==
    /\ pc = "start"
    /\ IF Len(p) <= 1
       THEN /\ pc' = "done"
            /\ ret' = "map"
            /\ out1' = IF run = 1 THEN p ELSE out1
            /\ UNCHANGED <<p, tabs, i, j, n0>>
       ELSE \E m \in {DropEmpty(PrepareAll(p, 1), Len(p) - 1)} :
            \E nx \in {NextPair(Len(m.p) - 2, Len(m.p) - 1, Len(m.p))} :
                /\ p' = m.p
                /\ tabs' = m.tabs
                /\ n0' = Len(m.p)
                /\ i' = nx[1]
                /\ j' = nx[2]
                /\ pc' = IF nx[1] < 0 THEN "finish" ELSE "coalesce"
                /\ UNCHANGED <<ret, out1>>
    /\ restarts' = 0
    /\ last' = NoLast
    /\ UNCHANGED <<run, input>>
    /\ UNCHANGED svars

\* where the basic map that replaces the pair (a, b) of a map of n basic
\* maps is found after the call (0-based)
Survivor(r, a, b, n) ==
    IF r.rule = "subsumed_j" THEN a
    ELSE IF r.rule = "subsumed_i" THEN (IF b = n - 1 THEN a ELSE b)
    ELSE IF a < b THEN a ELSE b

\* one iteration of the inner loop of coalesce(), isl_coalesce.c:1634-1641,
\* with the loop heads that follow it
Step(flt) ==
    /\ pc = "coalesce"
    /\ \E r \in {coalesce_pair([p |-> p, tabs |-> tabs], i, j, flt)} :
       \E nx \in {NextAfter(r.changed, i, j, Len(r.p))} :
           /\ last' = [changed |-> r.changed, rule |-> r.rule, by |-> r.by,
                       a |-> i, b |-> j,
                       rat_i |-> p[i + 1].rational,
                       rat_j |-> p[j + 1].rational,
                       rat_res |-> IF r.changed = 1
                                   THEN r.p[Survivor(r, i, j, Len(p)) + 1].rational
                                   ELSE FALSE,
                       flt |-> flt,
                       err |-> r.err \/ r.changed < 0,
                       n |-> Len(p)]
           /\ IF r.changed < 0
              THEN /\ pc' = "done"
                   /\ ret' = "NULL"
                   /\ UNCHANGED <<p, tabs, i, j, restarts>>
              ELSE /\ p' = r.p
                   /\ tabs' = r.tabs
                   /\ i' = nx[1]
                   /\ j' = nx[2]
                   /\ pc' = IF nx[1] < 0 THEN "finish" ELSE "coalesce"
                   /\ restarts' = IF r.changed # 0 THEN restarts + 1
                                  ELSE restarts
                   /\ UNCHANGED ret
    /\ UNCHANGED <<run, input, out1, n0>>
    /\ UNCHANGED svars

\* the last loop of isl_map_coalesce, isl_coalesce.c:1707-1717
Finalize(bmap, tab) ==
    [isl_basic_map_gauss(isl_basic_map_update_from_tab(bmap, tab))
        EXCEPT !.no_implicit = TRUE, !.no_redundant = TRUE]

RECURSIVE FinalizeAll(_, _, _)
FinalizeAll(q, t, k) ==
    IF k > Len(q) THEN <<>>
    ELSE <<Finalize(q[k], t[k])>> \o FinalizeAll(q, t, k + 1)

Finish ==
    /\ pc = "finish"
    /\ p' = FinalizeAll(p, tabs, 1)
    /\ tabs' = <<>>
    /\ pc' = "done"
    /\ ret' = "map"
    /\ out1' = IF run = 1 THEN p' ELSE out1
    /\ UNCHANGED <<i, j, run, input, n0, restarts, last>>
    /\ UNCHANGED svars

\* isl_map_coalesce is called again, on the map it returned
Again ==
    /\ pc = "done"
    /\ run = 1
    /\ ret = "map"
    /\ pc' = "start"
    /\ run' = 2
    /\ ret' = "none"
    /\ UNCHANGED <<p, tabs, i, j, input, out1, n0, restarts, last>>
    /\ UNCHANGED svars

CNext == Start \/ Step("none") \/ Finish \/ Again

Spec == CInit /\ [][CNext]_vars

\* ------------------------------------------- classification errors ------
\* the functions in which a classification of a constraint can fail
Faults == {"eq_status_in", "ineq_status_in", "check_facets", "contains",
           "check_wraps", "can_wrap_in_set"}

\* coalesce() when isl_tab_ineq_type may fail in one of the functions
FNext == Start \/ Step("none") \/ (\E flt \in Faults : Step(flt)) \/ Finish

SpecFault == CInit /\ [][FNext]_vars

\* ------------------------------------------------- coalescer properties --
\* the bounds of an interval given by a lower and an upper bound
IsInterval(bmap) ==
    /\ ~bmap.rational
    /\ Len(bmap.eq) = 0
    /\ Len(bmap.ineq) = 2
    /\ bmap.ineq[1][2] = 1
    /\ bmap.ineq[2][2] = -1
    /\ 0 - bmap.ineq[1][1] <= bmap.ineq[2][1]
Lo(bmap) == 0 - bmap.ineq[1][1]
Hi(bmap) == bmap.ineq[2][1]

C3_MonotonicTermination ==
    (pc \in {"coalesce", "finish"})
        => /\ Len(p) + restarts = n0
           /\ restarts <= Max({n0 - 1, 0})
           /\ last.rule # "none" =>
                 /\ last.changed \in {0, 1}
                 /\ Len(p) = last.n - last.changed

\* the largest number of restarts has happened
C3_Witness ==
    /\ pc = "finish" /\ n0 = 3 /\ restarts = 2 /\ last.changed = 1

\* C4 as stated: the basic map that replaces a pair is rational if and
\* only if both basic maps of the pair were.
C4_AsStated ==
    last.changed = 1 => (last.rat_res <=> (last.rat_i /\ last.rat_j))

\* C4, amended: a basic map built by fuse() is rational if and only if
\* both basic maps of the pair were; a basic map that survives because
\* the other one was dropped as a subset keeps its own flag; the
\* adjacent-equality relaxation only happens to two integer basic maps;
\* and a both-rational pair always leaves a rational basic map.
C4_Rationality ==
    last.changed = 1 =>
        /\ last.by = "fuse" => (last.rat_res <=> (last.rat_i /\ last.rat_j))
        /\ last.rule = "subsumed_j" => (last.rat_res <=> last.rat_i)
        /\ last.rule = "subsumed_i" => (last.rat_res <=> last.rat_j)
        /\ last.by = "relax" => (~last.rat_res /\ ~last.rat_i /\ ~last.rat_j)
        /\ (last.rat_i /\ last.rat_j) => last.rat_res

\* fuse() has merged a rational and an integer basic map
C4_Witness ==
    /\ last.changed = 1 /\ last.by = "fuse"
    /\ last.rat_i /\ ~last.rat_j /\ ~last.rat_res

\* C5: for two non-empty integer intervals [a,b] and [c,d], each given by
\* a lower and an upper bound, isl_map_coalesce returns the one basic map
\* [min(a,c), max(b,d)] when max(a,c) <= min(b,d) + 1, and else two basic
\* maps with the points of the two inputs, in their order.
C5_Intervals ==
    (run = 1 /\ pc = "done" /\ Len(input) = 2
       /\ IsInterval(input[1]) /\ IsInterval(input[2]))
        => /\ ret = "map"
           /\ IF Max({Lo(input[1]), Lo(input[2])})
                    <= Min({Hi(input[1]), Hi(input[2])}) + 1
              THEN /\ Len(p) = 1
                   /\ BmapPoints(p[1], Window) =
                         Min({Lo(input[1]), Lo(input[2])})
                            ..Max({Hi(input[1]), Hi(input[2])})
              ELSE /\ Len(p) = 2
                   /\ \A k \in 1..2 :
                         BmapPoints(p[k], Window) = BmapPoints(input[k], Window)

\* two adjacent intervals have become one
C5_Witness ==
    /\ run = 1 /\ pc = "done"
    /\ input = <<Interval(0, 0, FALSE), Interval(1, 2, FALSE)>>
    /\ Len(p) = 1

\* C6: when a classification made while a pair is combined gives
\* STATUS_ERROR, isl_map_coalesce returns NULL and examines no other pair.
C6_ErrorIsFatal ==
    last.err => (pc = "done" /\ ret = "NULL")

\* a classification failed inside check_facets and the driver went on
C6_Witness ==
    /\ last.err /\ last.flt = "check_facets" /\ ret # "NULL"

\* ===================================================== isl_schedule.c ====
\* The scheduler is modelled for statements with at most one set dimension
\* and without parameters: a schedule row of a statement is <<c0>> or
\* <<c0, c1>> and maps the instance <<x>> to c0 + c1 * x.  A dependence
\* relation is the set of its pairs <<x, y>> of instances and consists of
\* one basic map when it is not empty.  A tagged relation is the set of its
\* elements <<x, a, y, b>>, with a and b the tags of x and y.

\* ------------------------------------------------------------- bounds ----
\* largest number of statements of an input
MaxStmt == 2
\* the instances of a statement with a set dimension are 0..MaxIter
MaxIter == 1

\* the edge types, in the order of enum isl_edge_type
isl_edge_validity == "validity"
isl_edge_coincidence == "coincidence"
isl_edge_condition == "condition"
isl_edge_conditional_validity == "conditional_validity"
isl_edge_proximity == "proximity"

EdgeTypes == <<isl_edge_validity, isl_edge_coincidence, isl_edge_condition,
               isl_edge_conditional_validity, isl_edge_proximity>>

\* An entry of node->band is <<v>> once v has been written to it;
\* isl_alloc_array leaves it without a defined value.
UNINIT == <<>>

\* a sequence of n copies of v
RECURSIVE Fill(_, _)
Fill(n, v) == IF n <= 0 THEN <<>> ELSE <<v>> \o Fill(n - 1, v)

\* the instances of a statement with nvar set dimensions
Instances(nvar) == IF nvar = 0 THEN {<<>>} ELSE {<<x>> : x \in 0..MaxIter}

\* the value of the affine expression of a schedule row in an instance
isl_aff_eval(row, pt) ==
    IF Len(pt) = 0 THEN row[1] ELSE row[1] + row[2] * pt[1]

\* the image of an instance under the rows k.. of a schedule matrix
RECURSIVE ScheduleFrom(_, _, _)
ScheduleFrom(mat, pt, k) ==
    IF k > Len(mat) THEN <<>>
    ELSE <<isl_aff_eval(mat[k], pt)>> \o ScheduleFrom(mat, pt, k + 1)

\* node_extract_schedule: the schedule map of a node, applied to pt
node_extract_schedule(node, pt) == ScheduleFrom(node.sched, pt, 1)

\* ------------------------------------------------ the dependence graph --
\* the position in graph->node of the node of statement id, or 0
graph_find_node(graph, id) ==
    IF \E k \in 1..Len(graph.node) : graph.node[k].id = id
    THEN CHOOSE k \in 1..Len(graph.node) : graph.node[k].id = id
    ELSE 0

\* the entries <<type, src, dst, edge index>> of graph->edge_table[type]
\* for the pair (src, dst)
graph_find_edge_entry(graph, type, src, dst) ==
    {e \in graph.tab : e[1] = type /\ e[2] = src /\ e[3] = dst}

\* the index of the edge of type "type" from src to dst, or 0
graph_find_edge(graph, type, src, dst) ==
    IF graph_find_edge_entry(graph, type, src, dst) = {} THEN 0
    ELSE (CHOOSE e \in graph_find_edge_entry(graph, type, src, dst) : TRUE)[4]

graph_edge_table_add(graph, type, k) ==
    [graph EXCEPT !.tab =
        (@ \ graph_find_edge_entry(graph, type, graph.edge[k].src,
                                   graph.edge[k].dst))
        \cup {<<type, graph.edge[k].src, graph.edge[k].dst, k>>}]

graph_has_edge(graph, type, src, dst) ==
    /\ graph_find_edge(graph, type, src, dst) # 0
    /\ graph.edge[graph_find_edge(graph, type, src, dst)].map # {}

\* the first edge with the src, dst and map of model, or 0 for model itself
graph_find_matching_edge(graph, model) ==
    IF \E t \in 1..Len(EdgeTypes) :
           /\ graph_find_edge(graph, EdgeTypes[t], model.src, model.dst) # 0
           /\ graph.edge[graph_find_edge(graph, EdgeTypes[t], model.src,
                                         model.dst)].map = model.map
    THEN graph_find_edge(graph,
            EdgeTypes[Min({t \in 1..Len(EdgeTypes) :
               /\ graph_find_edge(graph, EdgeTypes[t], model.src, model.dst) # 0
               /\ graph.edge[graph_find_edge(graph, EdgeTypes[t], model.src,
                                             model.dst)].map = model.map})],
            model.src, model.dst)
    ELSE 0

\* a graph_remove_edge that leaves the tables alone
graph_remove_edge_nothing(graph, k) == graph

\* the edge removed from all the edge tables that refer to it
graph_remove_edge(graph, k) ==
    [graph EXCEPT !.tab = {e \in @ : e[4] # k}]

graph_has_any_edge(graph, src, dst) ==
    \E t \in 1..Len(EdgeTypes) : graph_has_edge(graph, EdgeTypes[t], src, dst)

graph_has_validity_edge(graph, src, dst) ==
    \/ graph_has_edge(graph, isl_edge_validity, src, dst)
    \/ graph_has_edge(graph, isl_edge_conditional_validity, src, dst)

\* graph_alloc: a graph without nodes and edges
graph_alloc ==
    [node |-> <<>>, edge |-> <<>>, tab |-> {}, sorted |-> <<>>,
     maxvar |-> 0, max_row |-> 0, n_row |-> 0, n_band |-> 0,
     n_total_row |-> 0, band_start |-> 0, root |-> FALSE,
     src_scc |-> 0, dst_scc |-> 0, scc |-> 0]

\* the largest of the numbers of the sequence s, and 0 at least
RECURSIVE MaxOf(_, _)
MaxOf(s, k) ==
    IF k > Len(s) THEN 0
    ELSE Let(MaxOf(s, k + 1), LAMBDA m : IF s[k] > m THEN s[k] ELSE m)

\* compute_max_row, for the domain given as the nvar of each statement
compute_max_row(domain) == Len(domain) + 2 * MaxOf(domain, 1)

\* the node that extract_node adds for statement id
extract_node(id, nvar) ==
    [id |-> id, nvar |-> nvar, sched |-> <<>>, rank |-> 0,
     cmap |-> <<>>, cinv |-> <<>>, scc |-> 0]

RECURSIVE extract_nodes(_, _)
extract_nodes(domain, k) ==
    IF k > Len(domain) THEN <<>>
    ELSE <<extract_node(k, domain[k])>> \o extract_nodes(domain, k + 1)

\* the arrays that extract_node allocates for a statement
node_arrays(max_row) ==
    [band |-> Fill(max_row, UNINIT), band_id |-> Fill(max_row, 0),
     coincident |-> Fill(max_row, 0)]

merge_edge(type, edge1, edge2) ==
    [edge1 EXCEPT
        !.validity = @ \/ edge2.validity,
        !.coincidence = @ \/ edge2.coincidence,
        !.proximity = @ \/ edge2.proximity,
        !.condition = @ \/ edge2.condition,
        !.conditional_validity = @ \/ edge2.conditional_validity,
        !.tagged_condition =
            IF type = isl_edge_condition THEN @ \cup edge2.tagged_condition
            ELSE @,
        !.tagged_validity =
            IF type = isl_edge_conditional_validity
            THEN @ \cup edge2.tagged_validity ELSE @]

\* the relation of a map of the input with its tags
Tagged(m) == {<<pr[1], m.ta, pr[2], m.tb>> : pr \in m.rel}

\* the edge that extract_edge fills in for map m of type "type"
new_edge(type, m) ==
    [src |-> m.src, dst |-> m.dst, map |-> m.rel,
     tagged_condition |-> IF type = isl_edge_condition THEN Tagged(m) ELSE {},
     tagged_validity |->
         IF type = isl_edge_conditional_validity THEN Tagged(m) ELSE {},
     validity |-> type = isl_edge_validity,
     coincidence |-> type = isl_edge_coincidence,
     proximity |-> type = isl_edge_proximity,
     local |-> FALSE,
     condition |-> type = isl_edge_condition,
     conditional_validity |-> type = isl_edge_conditional_validity]

extract_edge(graph, type, m) ==
    IF graph_find_node(graph, m.src) = 0 \/ graph_find_node(graph, m.dst) = 0
    THEN graph
    ELSE Let(graph_find_matching_edge(graph, new_edge(type, m)), LAMBDA k :
         IF k = 0
         THEN graph_edge_table_add(
                  [graph EXCEPT !.edge = Append(@, new_edge(type, m))],
                  type, Len(graph.edge) + 1)
         ELSE graph_edge_table_add(
                  [graph EXCEPT !.edge[k] = merge_edge(type, @, new_edge(type, m))],
                  type, k))

\* extract_edge on the maps k.. of the union map of type "type"
RECURSIVE extract_edges(_, _, _, _)
extract_edges(graph, type, maps, k) ==
    IF k > Len(maps) THEN graph
    ELSE extract_edges(extract_edge(graph, type, maps[k]), type, maps, k + 1)

\* the loop over the edge types of isl_schedule_constraints_compute_schedule
RECURSIVE extract_all_edges(_, _, _)
extract_all_edges(graph, constraint, t) ==
    IF t > Len(EdgeTypes) THEN graph
    ELSE extract_all_edges(
             extract_edges(graph, EdgeTypes[t], constraint[EdgeTypes[t]], 1),
             constraint, t + 1)

\* the identity permutation that graph_alloc stores in graph->sorted
RECURSIVE Iota(_, _)
Iota(k, n) == IF k > n THEN <<>> ELSE <<k>> \o Iota(k + 1, n)

\* the root graph of the constraints c
root_graph(c) ==
    extract_all_edges(
        [graph_alloc EXCEPT !.node = extract_nodes(c.domain, 1),
                            !.sorted = Iota(1, Len(c.domain)),
                            !.maxvar = MaxOf(c.domain, 1),
                            !.max_row = compute_max_row(c.domain),
                            !.root = TRUE],
        c.constraint, 1)

\* ---------------------------------------------- connected components ----
\* node_follows_strong and node_follows_weak as the set of the pairs
\* of node positions for which they hold
node_follows(graph, weak) ==
    {f \in (1..Len(graph.node)) \X (1..Len(graph.node)) :
        IF weak
        THEN \/ graph_has_any_edge(graph, graph.node[f[2]].id, graph.node[f[1]].id)
             \/ graph_has_any_edge(graph, graph.node[f[1]].id, graph.node[f[2]].id)
        ELSE graph_has_validity_edge(graph, graph.node[f[2]].id,
                                     graph.node[f[1]].id)}

\* Tarjan's algorithm (isl_tarjan.c): the depth-first search from node v.
\* st.seen are the nodes that have an index, st.disc lists them in the
\* order in which they got it and st.fin in the order in which their
\* visit ended.  The nodes w are tried from the last to the first.
RECURSIVE isl_tarjan_components(_, _, _, _), tarjan_follow(_, _, _, _, _)
tarjan_follow(F, n, v, w, st) ==
    IF w = 0 THEN st
    ELSE IF w # v /\ <<v, w>> \in F /\ w \notin st.seen
         THEN tarjan_follow(F, n, v, w - 1, isl_tarjan_components(F, n, w, st))
         ELSE tarjan_follow(F, n, v, w - 1, st)

isl_tarjan_components(F, n, v, st) ==
    Let(tarjan_follow(F, n, v, n,
                      [st EXCEPT !.seen = @ \cup {v}, !.disc = Append(@, v)]),
        LAMBDA s : [s EXCEPT !.fin = Append(@, v)])

\* isl_tarjan_graph_init: the search from every node without an index
RECURSIVE isl_tarjan_graph_init(_, _, _, _)
isl_tarjan_graph_init(F, n, v, st) ==
    IF v > n THEN st
    ELSE IF v \in st.seen THEN isl_tarjan_graph_init(F, n, v + 1, st)
         ELSE isl_tarjan_graph_init(F, n, v + 1,
                                    isl_tarjan_components(F, n, v, st))

\* the pairs <<a, b>> with a path of at most 2^k steps of F from a to b
RECURSIVE Paths(_, _, _)
Paths(F, n, k) ==
    IF k = 0 THEN F \cup {<<a, a>> : a \in 1..n}
    ELSE Let(Paths(F, n, k - 1), LAMBDA R :
             {f \in (1..n) \X (1..n) :
                 \E b \in 1..n : <<f[1], b>> \in R /\ <<b, f[2]>> \in R})

\* the position of x in the sequence s
PosIn(s, x) == CHOOSE k \in 1..Len(s) : s[k] = x

\* the root of the component of node v: its node that got an index first
tarjan_root(R, st, n, v) ==
    CHOOSE r \in 1..n :
        /\ <<v, r>> \in R /\ <<r, v>> \in R
        /\ \A w \in 1..n : (<<v, w>> \in R /\ <<w, v>> \in R)
                            => PosIn(st.disc, r) <= PosIn(st.disc, w)

\* the number of components that are complete before that of node v is:
\* g->order lists the components in the order in which their roots end
tarjan_index(R, st, n, v) ==
    Cardinality({r \in {tarjan_root(R, st, n, w) : w \in 1..n} :
                    PosIn(st.fin, r) < PosIn(st.fin, tarjan_root(R, st, n, v))})

RECURSIVE set_scc(_, _, _, _)
set_scc(node, R, st, k) ==
    IF k > Len(node) THEN <<>>
    ELSE <<[node[k] EXCEPT !.scc = tarjan_index(R, st, Len(node), k)]>>
         \o set_scc(node, R, st, k + 1)

detect_ccs_from(graph, F, n) ==
    Let(isl_tarjan_graph_init(F, n, 1, [seen |-> {}, disc |-> <<>>, fin |-> <<>>]),
        LAMBDA st :
    Let(Paths(F, n, 2), LAMBDA R :
        [graph EXCEPT
            !.node = set_scc(graph.node, R, st, 1),
            !.scc = Cardinality({tarjan_root(R, st, n, w) : w \in 1..n})]))

detect_ccs(graph, weak) ==
    detect_ccs_from(graph, node_follows(graph, weak), Len(graph.node))

detect_sccs(graph) == detect_ccs(graph, FALSE)

detect_wccs(graph) == detect_ccs(graph, TRUE)

\* isl_sort with cmp_scc: s sorted by the SCC of the nodes, the order of
\* nodes of the same SCC kept
RECURSIVE isl_sort_insert(_, _, _)
isl_sort_insert(node, s, x) ==
    IF s = <<>> THEN <<x>>
    ELSE IF node[x].scc < node[s[1]].scc THEN <<x>> \o s
         ELSE <<s[1]>> \o isl_sort_insert(node, Tail(s), x)

RECURSIVE isl_sort(_, _, _)
isl_sort(node, s, k) ==
    IF k = 0 THEN <<>>
    ELSE isl_sort_insert(node, isl_sort(node, s, k - 1), s[k])

sort_sccs(graph) ==
    [graph EXCEPT !.sorted = isl_sort(graph.node, graph.sorted, Len(graph.sorted))]

\* ------------------------------------------------------ change of basis --
\* the column of the linear parts of the rows k.. of a schedule matrix
RECURSIVE FirstNonZero(_, _)
FirstNonZero(mat, k) ==
    IF k > Len(mat) THEN 0
    ELSE IF mat[k][2] # 0 THEN mat[k][2] ELSE FirstNonZero(mat, k + 1)

\* node_update_cmap.  The linear part of the schedule of a node with one
\* set dimension is a single column; its left Hermite normal form H = S U
\* has U = (1) or, when the first element of the column that is not zero
\* is negative, U = (-1), and Q is the inverse of U.
node_update_cmap(node) ==
    IF node.nvar = 0
    THEN [node EXCEPT !.cmap = <<>>, !.cinv = <<>>, !.rank = 0]
    ELSE Let(FirstNonZero(node.sched, 1), LAMBDA f :
             [node EXCEPT !.cmap = IF f < 0 THEN << <<-1>> >> ELSE << <<1>> >>,
                          !.cinv = IF f < 0 THEN << <<-1>> >> ELSE << <<1>> >>,
                          !.rank = IF f = 0 THEN 0 ELSE 1])

isl_mat_vec_product(mat, vec) ==
    IF Len(vec) = 0 THEN <<>> ELSE << mat[1][1] * vec[1] >>

RECURSIVE update_cmaps(_, _)
update_cmaps(node, k) ==
    IF k > Len(node) THEN <<>>
    ELSE <<node_update_cmap(node[k])>> \o update_cmaps(node, k + 1)

RECURSIVE maxvar_of(_, _, _)
maxvar_of(node, n_row, k) ==
    IF k > Len(node) THEN 0
    ELSE Let(maxvar_of(node, n_row, k + 1), LAMBDA m :
             IF node[k].nvar + n_row - node[k].rank > m
             THEN node[k].nvar + n_row - node[k].rank ELSE m)

compute_maxvar(graph) ==
    Let(update_cmaps(graph.node, 1), LAMBDA nd :
        [graph EXCEPT !.node = nd, !.maxvar = maxvar_of(nd, graph.n_row, 1)])

needs_row(graph, node) ==
    node.nvar - node.rank >= graph.maxvar - graph.n_row

\* ------------------------------------------------------------ the LPs ----
\* The (I)LP solver of isl_tab_pip.c is modelled by what it returns: the
\* lexicographically smallest point of the LP in the order of its
\* variables, found by enumeration.  A point is given by the values
\* <<c_0>> or <<c_0, t>> of the variables of each node, in the order of
\* graph->node; every other variable of the LP is a function of these.
\* The LPs are enumerated with schedule_max_coefficient set, and with the
\* constant terms up to the bound that the smallest solution can reach.

\* the largest constant term of a smallest solution of an LP on n nodes
ConstBound(n, max_coefficient) == (n - 1) * (2 * max_coefficient * MaxIter + 1)

NodePoints(nvar, kmax, cmax) ==
    IF nvar = 0 THEN {<<c0>> : c0 \in 0..kmax}
    ELSE {<<c[1], c[2]>> : c \in (0..kmax) \X ((0 - cmax)..cmax)}

RECURSIVE LPPoints(_, _, _, _)
LPPoints(node, k, kmax, cmax) ==
    IF k > Len(node) THEN {<<>>}
    ELSE {<<c[1]>> \o c[2] :
             c \in NodePoints(node[k].nvar, kmax, cmax)
                   \X LPPoints(node, k + 1, kmax, cmax)}

\* the schedule row of a node for the values v of its LP variables:
\* c_x = Q t when the LP is expressed in the columns of node->cmap
node_row(node, v, use_cmap) ==
    IF use_cmap THEN <<v[1]>> \o isl_mat_vec_product(node.cmap, Tail(v))
    ELSE v

RECURSIVE sol_rows(_, _, _, _)
sol_rows(node, sol, use_cmap, k) ==
    IF k > Len(node) THEN <<>>
    ELSE <<node_row(node[k], sol[k], use_cmap)>>
         \o sol_rows(node, sol, use_cmap, k + 1)

\* the dependence distances of the rows "rows" of the nodes over an edge
Distances(graph, rows, edge) ==
    {isl_aff_eval(rows[graph_find_node(graph, edge.dst)], pr[2])
     - isl_aff_eval(rows[graph_find_node(graph, edge.src)], pr[1]) :
        pr \in edge.map}

\* an edge is forced to be local in the main LP
is_local(edge, use_coincidence) ==
    edge.local \/ (edge.coincidence /\ use_coincidence)

\* add_all_validity_constraints on the rows of a point
add_all_validity_constraints(graph, use_coincidence, rows) ==
    \A k \in 1..Len(graph.edge) :
        (graph.edge[k].validity \/ is_local(graph.edge[k], use_coincidence))
        => \A d \in Distances(graph, rows, graph.edge[k]) : d >= 0

\* add_all_proximity_constraints on the rows of a point, for the value m0
\* of the bound m_0 on the distances
add_all_proximity_constraints(graph, use_coincidence, rows, m0) ==
    \A k \in 1..Len(graph.edge) :
        (graph.edge[k].proximity \/ is_local(graph.edge[k], use_coincidence))
        => \A d \in Distances(graph, rows, graph.edge[k]) :
              /\ d <= (IF is_local(graph.edge[k], use_coincidence) THEN 0 ELSE m0)
              /\ (graph.edge[k].validity
                  \/ is_local(graph.edge[k], use_coincidence)
                  \/ 0 - d <= m0)

\* the smallest m_0 for which add_all_proximity_constraints can hold
proximity_bound(graph, use_coincidence, rows) ==
    Max({0} \cup UNION {
        {IF graph.edge[k].validity THEN d ELSE (IF d < 0 THEN 0 - d ELSE d) :
            d \in Distances(graph, rows, graph.edge[k])} :
        k \in {e \in 1..Len(graph.edge) :
                  /\ graph.edge[e].proximity
                  /\ ~is_local(graph.edge[e], use_coincidence)}})

\* the positive and the negative part of every coefficient is at most
\* schedule_max_coefficient
add_bound_coefficient_constraints(sol) ==
    opt.max_coefficient # -1 =>
        \A k \in 1..Len(sol) : \A c \in 2..Len(sol[k]) :
            /\ sol[k][c] <= opt.max_coefficient
            /\ 0 - sol[k][c] <= opt.max_coefficient

\* the constraints of setup_lp on a point: the bounds on the constant
\* terms and on the coefficients and the constraints of the edges
setup_lp(graph, use_coincidence, sol) ==
    /\ \A k \in 1..Len(graph.node) :
          opt.max_constant_term # -1 => sol[k][1] <= opt.max_constant_term
    /\ add_bound_coefficient_constraints(sol)
    /\ Let(sol_rows(graph.node, sol, TRUE, 1), LAMBDA rows :
          /\ add_all_validity_constraints(graph, use_coincidence, rows)
          /\ add_all_proximity_constraints(graph, use_coincidence, rows,
                 proximity_bound(graph, use_coincidence, rows)))

\* the regions of solve_lp: the point is not trivial on the nodes that
\* need a row
non_trivial(graph, sol) ==
    \A k \in 1..Len(graph.node) :
        needs_row(graph, graph.node[k])
        => \E c \in (2 + graph.node[k].rank)..Len(sol[k]) : sol[k][c] # 0

\* the values of the variables of the nodes k.. of graph->sorted, each
\* coefficient as its negative part followed by its positive part
RECURSIVE node_variables(_, _, _)
node_variables(graph, sol, k) ==
    IF k > Len(graph.sorted) THEN <<>>
    ELSE Let(sol[graph.sorted[k]], LAMBDA v :
             (IF Len(v) = 1 THEN <<v[1]>>
              ELSE <<v[1], IF v[2] < 0 THEN 0 - v[2] ELSE 0,
                           IF v[2] > 0 THEN v[2] ELSE 0>>)
             \o node_variables(graph, sol, k + 1))

\* the sum of the positive and negative parts of all coefficients
RECURSIVE sum_coefficients(_, _)
sum_coefficients(sol, k) ==
    IF k > Len(sol) THEN 0
    ELSE (IF Len(sol[k]) = 1 THEN 0
          ELSE IF sol[k][2] < 0 THEN 0 - sol[k][2] ELSE sol[k][2])
         + sum_coefficients(sol, k + 1)

\* the variables of the LP of setup_lp in a point, in their order
lp_variables(graph, use_coincidence, sol) ==
    <<0, proximity_bound(graph, use_coincidence,
                         sol_rows(graph.node, sol, TRUE, 1)),
      0, sum_coefficients(sol, 1)>> \o node_variables(graph, sol, 1)

\* the elements of S (pairs of a sequence of variables and a point) that
\* are smallest in the lexicographic order on the variables k..
RECURSIVE lexmin_from(_, _)
lexmin_from(S, k) ==
    IF Cardinality(S) <= 1 THEN S
    ELSE Let(Min({x[1][k] : x \in S}), LAMBDA m :
             lexmin_from({x \in S : x[1][k] = m}, k + 1))

\* the point that isl_tab_basic_set_non_trivial_lexmin returns for the LP
\* of setup_lp, <<>> (a vector of size zero) if there is none
solve_lp(graph, use_coincidence) ==
    Let(lexmin_from(
            {<<lp_variables(graph, use_coincidence, sol), sol>> :
                sol \in {s \in LPPoints(graph.node, 1,
                               IF opt.max_constant_term # -1
                               THEN opt.max_constant_term
                               ELSE ConstBound(Len(graph.node), opt.max_coefficient),
                               opt.max_coefficient) :
                            /\ non_trivial(graph, s)
                            /\ setup_lp(graph, use_coincidence, s)}}, 1),
        LAMBDA S : IF S = {} THEN <<>> ELSE (CHOOSE x \in S : TRUE)[2])

\* ---------------------------------------------------- schedule rows ------
\* The operations below work on "st": a graph together with the arrays
\* band, band_id and coincident that its nodes point to (shared with the
\* nodes of the graphs it was copied from) and the error raised, if any.
\* st.rowlog records, for every row of the schedule of a statement, the
\* function that appended it, the band it was appended to and the
\* coincidence and conditional validity dependences of the graph at that
\* time; the program does not read it.

\* the coincidence edges of the graph as instance pairs <<src, x, dst, y>>
coincidence_pairs(graph) ==
    UNION {{<<graph.edge[k].src, pr[1], graph.edge[k].dst, pr[2]>> :
              pr \in graph.edge[k].map} :
           k \in {e \in 1..Len(graph.edge) : graph.edge[e].coincidence}}

\* domain and range of a tagged relation of an edge: tagged instances
\* <<statement, instance, tag>>
tagged_domain(edge, rel) == {<<edge.src, t[1], t[2]>> : t \in rel}

tagged_range(edge, rel) == {<<edge.dst, t[3], t[4]>> : t \in rel}

domain_intersects(edge, rel, uset) == tagged_domain(edge, rel) \cap uset # {}

range_intersects(edge, rel, uset) == tagged_range(edge, rel) \cap uset # {}

\* the conditional validity edges of the graph, each as its instance pairs
\* <<src, x, dst, y>> with the instance pairs of the condition edges that
\* are adjacent to it
conditional_pairs(graph) ==
    {[validity |-> {<<graph.edge[k].src, pr[1], graph.edge[k].dst, pr[2]>> :
                      pr \in graph.edge[k].map},
      condition |->
          UNION {{<<graph.edge[c].src, t[1], graph.edge[c].dst, t[3]>> :
                    t \in graph.edge[c].tagged_condition} :
                 c \in {e \in 1..Len(graph.edge) :
                    /\ graph.edge[e].condition
                    /\ \/ domain_intersects(graph.edge[e],
                              graph.edge[e].tagged_condition,
                              tagged_range(graph.edge[k],
                                           graph.edge[k].tagged_validity))
                       \/ range_intersects(graph.edge[e],
                              graph.edge[e].tagged_condition,
                              tagged_domain(graph.edge[k],
                                            graph.edge[k].tagged_validity))}}] :
        k \in {e \in 1..Len(graph.edge) : graph.edge[e].conditional_validity}}

row_log(graph, by) ==
    [by |-> by, band |-> graph.n_band,
     coincidence |-> coincidence_pairs(graph),
     conditional |-> conditional_pairs(graph)]

isl_die(st, msg) == [st EXCEPT !.error = msg]

\* the loop over the nodes k.. that adds rows[k] to the schedule of node k
\* and sets band[n_total_row] to n_band, and coincident[n_total_row] to
\* "coincident" unless that is -1
RECURSIVE add_rows(_, _, _, _, _)
add_rows(st, rows, coincident, by, k) ==
    IF k > Len(st.graph.node) THEN st
    ELSE add_rows(
             Let(st.graph.node[k].id, LAMBDA id :
                 [st EXCEPT
                     !.graph.node[k].sched = Append(@, rows[k]),
                     !.arrays[id].band[st.graph.n_total_row + 1] = <<st.graph.n_band>>,
                     !.arrays[id].coincident[st.graph.n_total_row + 1] =
                         IF coincident = -1 THEN @ ELSE coincident,
                     !.rowlog[id] =
                         Append(@, row_log(st.graph, by))]),
             rows, coincident, by, k + 1)

update_schedule(st, sol, use_cmap, coincident) ==
    IF sol = <<>> THEN isl_die(st, "no solution found")
    ELSE IF st.graph.n_total_row >= st.graph.max_row
    THEN isl_die(st, "too many schedule rows")
    ELSE Let(add_rows(st, sol_rows(st.graph.node, sol, use_cmap, 1),
                      coincident, "update_schedule", 1),
             LAMBDA s1 :
                 [s1 EXCEPT !.graph.n_row = @ + 1,
                            !.graph.n_total_row = @ + 1])

\* specializer: source and sink are executed in the same iteration of
\* the current schedule
specializer(src, dst, pr) ==
    node_extract_schedule(src, pr[1]) = node_extract_schedule(dst, pr[2])

update_edge(graph, k) ==
    Let(graph.node[graph_find_node(graph, graph.edge[k].src)], LAMBDA src :
    Let(graph.node[graph_find_node(graph, graph.edge[k].dst)], LAMBDA dst :
    Let([graph EXCEPT
            !.edge[k].map = {pr \in @ : specializer(src, dst, pr)},
            !.edge[k].tagged_condition =
                {t \in @ : specializer(src, dst, <<t[1], t[3]>>)},
            !.edge[k].tagged_validity =
                {t \in @ : specializer(src, dst, <<t[1], t[3]>>)}],
        LAMBDA g1 :
            IF g1.edge[k].map = {} THEN graph_remove_edge(g1, k) ELSE g1)))

\* update_edges, from edge k down to the first one
RECURSIVE update_edges_from(_, _)
update_edges_from(graph, k) ==
    IF k < 1 THEN graph ELSE update_edges_from(update_edge(graph, k), k - 1)

update_edges(graph) == update_edges_from(graph, Len(graph.edge))

next_band(graph) ==
    [graph EXCEPT !.band_start = graph.n_total_row, !.n_band = @ + 1]

\* the rows <<scc, 0, ..>> of the nodes k..
RECURSIVE scc_rows(_, _)
scc_rows(node, k) ==
    IF k > Len(node) THEN <<>>
    ELSE <<(<<node[k].scc>> \o Fill(node[k].nvar, 0))>> \o scc_rows(node, k + 1)

sort_statements(st) ==
    IF Len(st.graph.node) <= 1 THEN st
    ELSE Let([st EXCEPT !.graph = update_edges(st.graph)], LAMBDA s1 :
         IF Len(s1.graph.edge) = 0 THEN s1
         ELSE Let([s1 EXCEPT !.graph = detect_sccs(s1.graph)], LAMBDA s2 :
              IF s2.graph.n_total_row >= s2.graph.max_row
              THEN isl_die(s2, "too many schedule rows")
              ELSE Let(add_rows(s2, scc_rows(s2.graph.node, 1), -1,
                                "sort_statements", 1),
                       LAMBDA s3 :
                           [s3 EXCEPT !.graph =
                               next_band([s3.graph EXCEPT !.n_total_row = @ + 1])])))

\* ------------------------------------------- conditional validity --------
\* the edges k.. with the local bit of those of S set to v
RECURSIVE set_local(_, _, _, _)
set_local(edge, S, v, k) ==
    IF k > Len(edge) THEN <<>>
    ELSE <<(IF k \in S THEN [edge[k] EXCEPT !.local = v] ELSE edge[k])>>
         \o set_local(edge, S, v, k + 1)

clear_local_edges(graph) ==
    [graph EXCEPT !.edge =
        set_local(graph.edge,
                  {k \in 1..Len(graph.edge) : graph.edge[k].condition},
                  FALSE, 1)]

need_condition_check(graph) ==
    /\ \E k \in 1..Len(graph.edge) : graph.edge[k].condition
    /\ \E k \in 1..Len(graph.edge) : graph.edge[k].conditional_validity

has_any_coincidence(graph) ==
    \E k \in 1..Len(graph.edge) : graph.edge[k].coincidence

has_validity_edges(graph) ==
    \E k \in 1..Len(graph.edge) :
        /\ graph.edge[k].map # {}
        /\ graph.edge[k].validity \/ graph.edge[k].conditional_validity

need_feautrier_step(graph) ==
    IF opt.algorithm # "FEAUTRIER" THEN FALSE ELSE has_validity_edges(graph)

\* the value of the final row of the schedule of a node in an instance
final_row(node, pt) == isl_aff_eval(node.sched[Len(node.sched)], pt)

is_violated(graph, edge_index) ==
    \E pr \in graph.edge[edge_index].map :
        final_row(graph.node[graph_find_node(graph, graph.edge[edge_index].src)],
                  pr[1])
        > final_row(graph.node[graph_find_node(graph, graph.edge[edge_index].dst)],
                    pr[2])

is_condition_false(graph, edge) ==
    \A t \in edge.tagged_condition :
        node_extract_schedule(graph.node[graph_find_node(graph, edge.src)], t[1])
        = node_extract_schedule(graph.node[graph_find_node(graph, edge.dst)], t[3])

\* the condition edges that has_adjacent_true_conditions marks as local
adjacent_conditions(graph, conditional_source, conditional_sink) ==
    {k \in 1..Len(graph.edge) :
        /\ graph.edge[k].condition
        /\ ~graph.edge[k].local
        /\ \/ domain_intersects(graph.edge[k], graph.edge[k].tagged_condition,
                                conditional_sink)
           \/ range_intersects(graph.edge[k], graph.edge[k].tagged_condition,
                               conditional_source)}

\* a has_adjacent_true_conditions that marks no edge
has_adjacent_true_conditions_unmarked(graph, conditional_source, conditional_sink) ==
    [graph |-> graph,
     any |-> \E k \in adjacent_conditions(graph, conditional_source,
                                          conditional_sink) :
                 ~is_condition_false(graph, graph.edge[k])]

\* has_adjacent_true_conditions: the graph with the adjacent condition
\* edges marked, and whether any of them is not local
has_adjacent_true_conditions(graph, conditional_source, conditional_sink) ==
    Let(adjacent_conditions(graph, conditional_source, conditional_sink),
        LAMBDA adj :
            [graph |-> [graph EXCEPT !.edge = set_local(graph.edge, adj, TRUE, 1)],
             any |-> \E k \in adj : ~is_condition_false(graph, graph.edge[k])])

\* the violated conditional validity edges
violated_edges(graph) ==
    {k \in 1..Len(graph.edge) :
        graph.edge[k].conditional_validity /\ is_violated(graph, k)}

\* a has_violated_conditional_constraint that never reports a violation
has_violated_conditional_constraint_never(graph) ==
    [graph |-> graph, any |-> FALSE]

has_violated_conditional_constraint(graph) ==
    IF violated_edges(graph) = {} THEN [graph |-> graph, any |-> FALSE]
    ELSE has_adjacent_true_conditions(graph,
             UNION {tagged_domain(graph.edge[k], graph.edge[k].tagged_validity) :
                      k \in violated_edges(graph)},
             UNION {tagged_range(graph.edge[k], graph.edge[k].tagged_validity) :
                      k \in violated_edges(graph)})

\* ------------------------------------------------- bands and padding -----
\* the rows first.. (counted from 0) of a matrix dropped, n of them
isl_mat_drop_rows(mat, first, n) ==
    SubSeq(mat, 1, first) \o SubSeq(mat, first + n + 1, Len(mat))

RECURSIVE drop_band(_, _, _)
drop_band(st, n, k) ==
    IF k > Len(st.graph.node) THEN st
    ELSE drop_band(
             [st EXCEPT
                 !.graph.node[k].sched =
                     isl_mat_drop_rows(@, st.graph.band_start, n),
                 !.rowlog[st.graph.node[k].id] =
                     isl_mat_drop_rows(@, st.graph.band_start, n)],
             n, k + 1)

\* a reset_band that keeps the rows of the band
reset_band_keep(st) == st

reset_band(st) ==
    Let(st.graph.n_total_row - st.graph.band_start, LAMBDA n :
        drop_band([st EXCEPT !.graph.n_total_row = @ - n,
                             !.graph.n_row = @ - n],
                  n, 1))

\* the elements first.. (counted from 0) and before "end" of an array set to v
RECURSIVE set_range(_, _, _, _)
set_range(a, first, end, v) ==
    IF first >= end THEN a
    ELSE set_range([a EXCEPT ![first + 1] = v], first + 1, end, v)

RECURSIVE pad_schedule_from(_, _)
pad_schedule_from(st, k) ==
    IF k > Len(st.graph.node) THEN st
    ELSE Let(Len(st.graph.node[k].sched), LAMBDA row :
         pad_schedule_from(
             [st EXCEPT
                 !.graph.node[k].sched =
                     @ \o Fill(st.graph.n_total_row - row,
                               Fill(1 + st.graph.node[k].nvar, 0)),
                 !.arrays[st.graph.node[k].id].band =
                     set_range(@, row, st.graph.n_total_row, <<-1>>),
                 !.rowlog[st.graph.node[k].id] =
                     @ \o Fill(st.graph.n_total_row - row,
                               row_log(st.graph, "pad_schedule"))],
             k + 1))

\* a pad_schedule that adds no row
pad_schedule_none(st) == st

pad_schedule(st) == pad_schedule_from(st, 1)

split_on_scc(st) ==
    IF st.graph.n_total_row >= st.graph.max_row
    THEN isl_die(st, "too many schedule rows")
    ELSE Let(add_rows(st, scc_rows(st.graph.node, 1), -1, "split_on_scc", 1),
             LAMBDA s1 :
                 [s1 EXCEPT !.graph =
                     next_band([s1.graph EXCEPT !.n_total_row = @ + 1])])

\* ------------------------------------------------------ the carry LP -----
\* the edges with a basic map, in the order of graph->edge: those of k..
RECURSIVE basic_maps(_, _)
basic_maps(graph, k) ==
    IF k > Len(graph.edge) THEN <<>>
    ELSE (IF graph.edge[k].map = {} THEN <<>> ELSE <<k>>)
         \o basic_maps(graph, k + 1)

\* the sum of map->n over the edges
count_basic_maps(graph) == Len(basic_maps(graph, 1))

\* the basic maps that add_all_constraints numbers: those of the
\* (conditional) validity edges
RECURSIVE carried_maps(_, _)
carried_maps(graph, k) ==
    IF k > Len(graph.edge) THEN <<>>
    ELSE (IF graph.edge[k].map # {}
             /\ (graph.edge[k].validity \/ graph.edge[k].conditional_validity)
          THEN <<k>> ELSE <<>>)
         \o carried_maps(graph, k + 1)

\* add_all_constraints on the rows of a point: the distance over the basic
\* map in position pos of carried_maps is at least e_pos >= 0
add_all_constraints(graph, rows) ==
    \A k \in 1..Len(graph.edge) :
        (graph.edge[k].validity \/ graph.edge[k].conditional_validity)
        => \A d \in Distances(graph, rows, graph.edge[k]) : d >= 0

\* the largest values of e_0, e_1, .. that a point allows: e_pos <= 1 and
\* e_pos is at most the distances over the basic map in position pos, if any
RECURSIVE carry_slack(_, _, _, _)
carry_slack(graph, rows, cm, pos) ==
    IF pos > count_basic_maps(graph) THEN <<>>
    ELSE <<(IF pos <= Len(cm)
               /\ \E d \in Distances(graph, rows, graph.edge[cm[pos]]) : d < 1
            THEN 0 ELSE 1)>>
         \o carry_slack(graph, rows, cm, pos + 1)

RECURSIVE SumSeq(_, _)
SumSeq(s, k) == IF k > Len(s) THEN 0 ELSE s[k] + SumSeq(s, k + 1)

\* the variables of the LP of setup_carry_lp in a point, in their order
carry_variables(graph, sol) ==
    Let(carry_slack(graph, sol, carried_maps(graph, 1), 1), LAMBDA e :
        <<Len(e) - SumSeq(e, 1), 0, sum_coefficients(sol, 1)>>
        \o e \o node_variables(graph, sol, 1))

\* the constraints of setup_carry_lp on a point
setup_carry_lp(graph, sol) ==
    /\ add_bound_coefficient_constraints(sol)
    /\ add_all_constraints(graph, sol)

\* the point that isl_tab_basic_set_non_neg_lexmin returns for the LP of
\* setup_carry_lp, as its first variable and the values of the nodes
carry_lexmin(graph) ==
    Let(lexmin_from(
            {<<carry_variables(graph, sol), sol>> :
                sol \in {s \in LPPoints(graph.node, 1,
                               ConstBound(Len(graph.node), opt.max_coefficient),
                               opt.max_coefficient) :
                            setup_carry_lp(graph, s)}}, 1),
        LAMBDA S : IF S = {} THEN [size |-> 0, el1 |-> 0, node |-> <<>>]
                   ELSE Let(CHOOSE x \in S : TRUE, LAMBDA x :
                            [size |-> Len(x[1]), el1 |-> x[1][1], node |-> x[2]]))

\* is_trivial, for the values v of the node in the solution
is_trivial(node, v) ==
    IF node.nvar = node.rank THEN FALSE
    ELSE \A c \in (1 + node.rank)..node.nvar :
             isl_mat_vec_product(node.cinv, Tail(v))[c] = 0

is_any_trivial(graph, sol) ==
    \E k \in 1..Len(graph.node) :
        needs_row(graph, graph.node[k]) /\ is_trivial(graph.node[k], sol[k])

\* the greatest common divisor of two numbers that are not negative
RECURSIVE isl_int_gcd(_, _)
isl_int_gcd(a, b) == IF b = 0 THEN a ELSE isl_int_gcd(b, a % b)

Abs(a) == IF a < 0 THEN 0 - a ELSE a

\* the gcd of the linear parts of the final rows of the nodes k..
RECURSIVE final_gcd(_, _)
final_gcd(node, k) ==
    IF k > Len(node) THEN 0
    ELSE isl_int_gcd(final_gcd(node, k + 1),
                     IF node[k].nvar = 0 THEN 0
                     ELSE Abs(node[k].sched[Len(node[1].sched)][2]))

\* the loop of split_scaled over the nodes k..: the constant term of the
\* final row is split off into a new row and the final row is scaled down
RECURSIVE split_scaled_from(_, _, _, _)
split_scaled_from(st, row, gcd, k) ==
    IF k > Len(st.graph.node) THEN st
    ELSE split_scaled_from(
             Let(st.graph.node[k], LAMBDA node :
                 [st EXCEPT
                     !.graph.node[k].sched =
                         [node.sched EXCEPT
                             ![row] = <<node.sched[row][1] \div gcd>>
                                      \o (IF node.nvar = 0 THEN <<>>
                                          ELSE <<node.sched[row][2] \div gcd>>)]
                         \o <<(<<node.sched[row][1] % gcd>>
                               \o Fill(node.nvar, 0))>>,
                     !.arrays[node.id].band[st.graph.n_total_row + 1] =
                         <<st.graph.n_band>>,
                     !.rowlog[node.id] =
                         Append(@, row_log(st.graph, "split_scaled"))]),
             row, gcd, k + 1)

\* a split_scaled that never splits
split_scaled_never(st) == st

split_scaled(st) ==
    IF ~opt.split_scaled THEN st
    ELSE IF Len(st.graph.node) <= 1 THEN st
    ELSE IF st.graph.n_total_row >= st.graph.max_row
    THEN isl_die(st, "too many schedule rows")
    ELSE Let(final_gcd(st.graph.node, 1), LAMBDA gcd :
         IF gcd <= 1 THEN st
         ELSE Let(split_scaled_from(
                      [st EXCEPT !.graph = next_band(st.graph)],
                      Len(st.graph.node[1].sched), gcd, 1),
                  LAMBDA s1 : [s1 EXCEPT !.graph.n_total_row = @ + 1]))

\* ------------------------------------------------------- sub-graphs ------
\* A frame of the call stack is a graph with the point "at" where the
\* computation on it stands and the local variables "loc" of the function
\* that waits for a sub-graph.

\* the operation F applied unless an error was raised before
Then(st, F(_)) == IF st.error # "" THEN st ELSE F(st)

\* copy_nodes: the nodes k.. of src that satisfy the predicate (those in
\* the positions "keep"); scc, rank and cmap are not copied
RECURSIVE copy_nodes(_, _, _)
copy_nodes(src, keep, k) ==
    IF k > Len(src.node) THEN <<>>
    ELSE (IF k \in keep
          THEN <<[extract_node(src.node[k].id, src.node[k].nvar)
                     EXCEPT !.sched = src.node[k].sched]>>
          ELSE <<>>)
         \o copy_nodes(src, keep, k + 1)

\* the edge types t.. for which edge k is the edge of the table of src
RECURSIVE edge_types_of(_, _, _)
edge_types_of(src, k, t) ==
    IF t > Len(EdgeTypes) THEN <<>>
    ELSE (IF graph_find_edge(src, EdgeTypes[t], src.edge[k].src, src.edge[k].dst) = k
          THEN <<EdgeTypes[t]>> ELSE <<>>)
         \o edge_types_of(src, k, t + 1)

RECURSIVE add_to_tables(_, _, _, _)
add_to_tables(dst, types, e, t) ==
    IF t > Len(types) THEN dst
    ELSE add_to_tables(graph_edge_table_add(dst, types[t], e), types, e, t + 1)

\* copy_edges: the edges k.. of src that are not empty and satisfy the
\* predicate (those in the positions "keep") added to dst; "error" is set
\* on a (conditional) validity edge that leaves dst
RECURSIVE copy_edges(_, _, _, _)
copy_edges(dst, src, keep, k) ==
    IF k > Len(src.edge) THEN [graph |-> dst, error |-> ""]
    ELSE IF k \notin keep \/ src.edge[k].map = {}
    THEN copy_edges(dst, src, keep, k + 1)
    ELSE IF graph_find_node(dst, src.edge[k].src) = 0
            \/ graph_find_node(dst, src.edge[k].dst) = 0
    THEN IF src.edge[k].validity \/ src.edge[k].conditional_validity
         THEN [graph |-> dst, error |-> "backward (conditional) validity edge"]
         ELSE copy_edges(dst, src, keep, k + 1)
    ELSE copy_edges(
             add_to_tables(
                 [dst EXCEPT !.edge =
                     Append(@, [src.edge[k] EXCEPT !.local = FALSE])],
                 edge_types_of(src, k, 1), Len(dst.edge) + 1, 1),
             src, keep, k + 1)

\* copy_schedule: the schedules of the nodes of src copied back to the
\* nodes k.. of dst that satisfy the predicate; w is the next node of src
RECURSIVE copy_schedules(_, _, _, _, _)
copy_schedules(node, src, keep, k, w) ==
    IF k > Len(node) THEN <<>>
    ELSE IF k \in keep
    THEN <<[node[k] EXCEPT !.sched = src.node[w].sched]>>
         \o copy_schedules(node, src, keep, k + 1, w + 1)
    ELSE <<node[k]>> \o copy_schedules(node, src, keep, k + 1, w)

copy_schedule(dst, src, keep) ==
    [dst EXCEPT !.node = copy_schedules(dst.node, src, keep, 1, 1),
                !.max_row = src.max_row,
                !.n_total_row = src.n_total_row,
                !.n_band = src.n_band]

node_scc_exactly(node, scc) == node.scc = scc

node_scc_at_most(node, scc) == node.scc <= scc

node_scc_at_least(node, scc) == node.scc >= scc

edge_scc_exactly(graph, edge, scc) ==
    /\ graph.node[graph_find_node(graph, edge.src)].scc = scc
    /\ graph.node[graph_find_node(graph, edge.dst)].scc = scc

edge_dst_scc_at_most(graph, edge, scc) ==
    graph.node[graph_find_node(graph, edge.dst)].scc <= scc

edge_src_scc_at_least(graph, edge, scc) ==
    graph.node[graph_find_node(graph, edge.src)].scc >= scc

\* compute_sub_schedule up to its call of compute_schedule_wcc or
\* compute_schedule: the frame of the sub-graph, or the error
compute_sub_schedule(graph, nodes, edges, wcc) ==
    Let(copy_edges([graph_alloc EXCEPT
                       !.node = copy_nodes(graph, nodes, 1),
                       !.sorted = Iota(1, Cardinality(nodes))],
                   graph, edges, 1),
        LAMBDA split :
            [graph |-> [split.graph EXCEPT
                           !.n_row = graph.n_row,
                           !.max_row = graph.max_row,
                           !.n_total_row = graph.n_total_row,
                           !.n_band = graph.n_band,
                           !.band_start = graph.band_start],
             at |-> IF wcc THEN "compute_schedule_wcc" ELSE "compute_schedule",
             loc |-> <<>>,
             error |-> split.error])

\* ------------------------------------------------ the scheduling steps ---
\* the positions of the nodes and of the edges that satisfy a predicate
nodes_scc(graph, lo, hi) ==
    {k \in 1..Len(graph.node) : lo <= graph.node[k].scc /\ graph.node[k].scc <= hi}

compute_next_band(st) ==
    [st EXCEPT !.graph = next_band(update_edges(st.graph)),
               !.at = "compute_schedule"]

\* the sub-graph "sub" entered from st, with the locals loc of the caller
enter_sub_schedule(st, sub, fn, loc) ==
    IF sub.error # "" THEN isl_die(st, sub.error)
    ELSE [st EXCEPT !.at = fn, !.loc = loc,
                    !.sub = <<[graph |-> sub.graph, at |-> sub.at,
                               loc |-> sub.loc]>>]

\* the sub-graph of compute_component_schedule for component wcc
component_sub_schedule(st, wcc, loc) ==
    enter_sub_schedule(st,
        compute_sub_schedule(st.graph, nodes_scc(st.graph, wcc, wcc),
            {k \in 1..Len(st.graph.edge) :
                edge_scc_exactly(st.graph, st.graph.edge[k], wcc)},
            TRUE),
        "compute_component_schedule", loc)

\* band_id[n_band] += scc for the nodes k..
RECURSIVE add_band_id(_, _)
add_band_id(st, k) ==
    IF k > Len(st.graph.node) THEN st
    ELSE add_band_id(
             [st EXCEPT !.arrays[st.graph.node[k].id].band_id[st.graph.n_band + 1] =
                            @ + st.graph.node[k].scc],
             k + 1)

\* compute_component_schedule up to the first call of compute_sub_schedule
compute_component_schedule(st) ==
    Then(IF opt.fuse = "MIN" \/ opt.separate_components
         THEN split_on_scc(st) ELSE st,
         LAMBDA s1 :
             component_sub_schedule(add_band_id(s1, 1), 0,
                 [wcc |-> 0, n_total_row |-> 0,
                  orig_total_row |-> s1.graph.n_total_row,
                  n_band |-> 0, orig_band |-> s1.graph.n_band]))

\* compute_component_schedule after the sub-graph "split" has returned
compute_component_schedule_next(st, split) ==
    Let(copy_schedule(st.graph, split, nodes_scc(st.graph, st.loc.wcc, st.loc.wcc)),
        LAMBDA g1 :
    Let([st.loc EXCEPT
            !.n_total_row = IF g1.n_total_row > @ THEN g1.n_total_row ELSE @,
            !.n_band = IF g1.n_band > @ THEN g1.n_band ELSE @,
            !.wcc = @ + 1], LAMBDA loc :
        IF loc.wcc < g1.scc
        THEN component_sub_schedule(
                 [st EXCEPT !.graph = [g1 EXCEPT
                                          !.n_total_row = loc.orig_total_row,
                                          !.n_band = loc.orig_band]],
                 loc.wcc, loc)
        ELSE [pad_schedule([st EXCEPT !.graph = [g1 EXCEPT
                                                    !.n_total_row = loc.n_total_row,
                                                    !.n_band = loc.n_band]])
                 EXCEPT !.at = "done", !.loc = <<>>]))

\* the rows <<!before, 0, ..>> of compute_split_schedule for the nodes k..
RECURSIVE split_rows(_, _, _)
split_rows(node, src_scc, k) ==
    IF k > Len(node) THEN <<>>
    ELSE <<(<<IF node[k].scc <= src_scc THEN 0 ELSE 1>> \o Fill(node[k].nvar, 0))>>
         \o split_rows(node, src_scc, k + 1)

\* band_id[n_band] = n for the nodes k.. after the split
RECURSIVE set_band_id(_, _, _)
set_band_id(st, n, k) ==
    IF k > Len(st.graph.node) THEN st
    ELSE set_band_id(
             IF st.graph.node[k].scc > st.graph.src_scc
             THEN [st EXCEPT
                      !.arrays[st.graph.node[k].id].band_id[st.graph.n_band + 1] = n]
             ELSE st,
             n, k + 1)

\* compute_split_schedule up to the first call of compute_sub_schedule
compute_split_schedule(st) ==
    IF st.graph.n_total_row >= st.graph.max_row
    THEN isl_die(st, "too many schedule rows")
    ELSE
    Let(add_rows(reset_band(st),
                 split_rows(st.graph.node, st.graph.src_scc, 1), 0,
                 "compute_split_schedule", 1), LAMBDA s1 :
    Let(set_band_id(
            [s1 EXCEPT !.graph =
                next_band([s1.graph EXCEPT !.n_total_row = @ + 1])],
            Cardinality(nodes_scc(st.graph, 0, st.graph.src_scc)), 1),
        LAMBDA s2 :
            enter_sub_schedule(s2,
                compute_sub_schedule(s2.graph,
                    nodes_scc(s2.graph, 0, s2.graph.src_scc),
                    {k \in 1..Len(s2.graph.edge) :
                        edge_dst_scc_at_most(s2.graph, s2.graph.edge[k],
                                             s2.graph.src_scc)},
                    FALSE),
                "compute_split_schedule",
                [second |-> FALSE, n_total_row |-> 0, n_band |-> 0,
                 orig_total_row |-> s2.graph.n_total_row,
                 orig_band |-> s2.graph.n_band])))

\* compute_split_schedule after the sub-graph "split" has returned
compute_split_schedule_next(st, split) ==
    IF ~st.loc.second
    THEN Let(copy_schedule(st.graph, split,
                           nodes_scc(st.graph, 0, st.graph.src_scc)),
             LAMBDA g1 :
        Let([st EXCEPT !.graph = [g1 EXCEPT
                                     !.n_total_row = st.loc.orig_total_row,
                                     !.n_band = st.loc.orig_band]],
            LAMBDA s1 :
                enter_sub_schedule(s1,
                    compute_sub_schedule(s1.graph,
                        nodes_scc(s1.graph, s1.graph.src_scc + 1, s1.graph.scc),
                        {k \in 1..Len(s1.graph.edge) :
                            edge_src_scc_at_least(s1.graph, s1.graph.edge[k],
                                                  s1.graph.src_scc + 1)},
                        FALSE),
                    "compute_split_schedule",
                    [st.loc EXCEPT !.second = TRUE,
                                   !.n_total_row = g1.n_total_row,
                                   !.n_band = g1.n_band])))
    ELSE Let(copy_schedule(st.graph, split,
                           nodes_scc(st.graph, st.graph.src_scc + 1, st.graph.scc)),
             LAMBDA g1 :
        [pad_schedule([st EXCEPT !.graph = [g1 EXCEPT
                !.n_total_row = IF st.loc.n_total_row > @ THEN st.loc.n_total_row ELSE @,
                !.n_band = IF st.loc.n_band > @ THEN st.loc.n_band ELSE @]])
            EXCEPT !.at = "done", !.loc = <<>>])

\* a driver that keeps the row of a trivial solution
carry_dependences_keep(st) ==
    Let(carry_lexmin(st.graph), LAMBDA sol :
        IF sol.size = 0 THEN isl_die(st, "error in schedule construction")
        ELSE IF sol.el1 >= count_basic_maps(st.graph)
        THEN isl_die(st, "unable to carry dependences")
        ELSE Then(update_schedule(st, sol.node, FALSE, 0), LAMBDA s1 :
             Then(split_scaled(s1), LAMBDA s2 : compute_next_band(s2))))

carry_dependences(st) ==
    Let(carry_lexmin(st.graph), LAMBDA sol :
        IF sol.size = 0 THEN isl_die(st, "error in schedule construction")
        ELSE IF sol.el1 >= count_basic_maps(st.graph)
        THEN isl_die(st, "unable to carry dependences")
        ELSE IF is_any_trivial(st.graph, sol.node)
        THEN IF st.graph.scc > 1 THEN compute_component_schedule(st)
             ELSE isl_die(st, "unable to construct non-trivial solution")
        ELSE Then(update_schedule(st, sol.node, FALSE, 0), LAMBDA s1 :
             Then(split_scaled(s1), LAMBDA s2 : compute_next_band(s2))))

\* compute_schedule_wcc up to its loop; n_reset is not a variable of the
\* source: it counts the calls of reset_band that this call has made
compute_schedule_wcc(st) ==
    Let([st EXCEPT !.graph = compute_maxvar(sort_sccs(detect_sccs(st.graph)))],
        LAMBDA s1 :
            IF need_feautrier_step(s1.graph) THEN carry_dependences(s1)
            ELSE [s1 EXCEPT
                     !.graph = clear_local_edges(s1.graph),
                     !.at = "while",
                     !.loc = [check_conditional |-> need_condition_check(s1.graph),
                              has_coincidence |-> has_any_coincidence(s1.graph),
                              force_coincidence |-> opt.outer_coincidence,
                              use_coincidence |-> has_any_coincidence(s1.graph),
                              n_reset |-> 0]])

compute_schedule(st) ==
    Let([st EXCEPT !.graph = IF opt.fuse = "MIN" THEN detect_sccs(st.graph)
                             ELSE detect_wccs(st.graph)],
        LAMBDA s1 : IF s1.graph.scc > 1 THEN compute_component_schedule(s1)
                    ELSE compute_schedule_wcc(s1))

\* what check_conflict may leave in src_scc and dst_scc when the solver
\* reports its conflicts: nothing, or the SCCs of a validity edge between
\* nodes of distinct SCCs
check_conflict(graph) ==
    {<<-1, -1>>} \cup
    {<<graph.node[graph_find_node(graph, graph.edge[k].src)].scc,
       graph.node[graph_find_node(graph, graph.edge[k].dst)].scc>> :
        k \in {e \in 1..Len(graph.edge) :
                  /\ graph.edge[e].validity
                  /\ graph.edge[e].map # {}
                  /\ graph.edge[e].src # graph.edge[e].dst
                  /\ graph.node[graph_find_node(graph, graph.edge[e].src)].scc
                     # graph.node[graph_find_node(graph, graph.edge[e].dst)].scc}}

\* a driver that retries without the coincidence constraints whenever
\* they were used
no_solution_retry(st, con) ==
    Let(st.graph.n_total_row = st.graph.band_start, LAMBDA empty :
        IF st.loc.use_coincidence
        THEN [st EXCEPT !.loc.use_coincidence = FALSE]
        ELSE IF ~opt.maximize_band_depth /\ ~empty THEN compute_next_band(st)
        ELSE IF con[1] >= 0
        THEN compute_split_schedule(
                 [st EXCEPT !.graph.src_scc = con[1], !.graph.dst_scc = con[2]])
        ELSE IF ~empty THEN compute_next_band(st)
        ELSE carry_dependences(st))

\* a driver that retries without the coincidence constraints only when
\* they are not forced and the band has a row
no_solution_non_empty(st, con) ==
    Let(st.graph.n_total_row = st.graph.band_start, LAMBDA empty :
        IF st.loc.use_coincidence /\ ~st.loc.force_coincidence /\ ~empty
        THEN [st EXCEPT !.loc.use_coincidence = FALSE]
        ELSE IF ~opt.maximize_band_depth /\ ~empty THEN compute_next_band(st)
        ELSE IF con[1] >= 0
        THEN compute_split_schedule(
                 [st EXCEPT !.graph.src_scc = con[1], !.graph.dst_scc = con[2]])
        ELSE IF ~empty THEN compute_next_band(st)
        ELSE carry_dependences(st))

\* a driver that retries with the coincidence constraints kept
no_solution_again(st, con) ==
    Let(st.graph.n_total_row = st.graph.band_start, LAMBDA empty :
        IF st.loc.use_coincidence /\ (~st.loc.force_coincidence \/ ~empty)
        THEN st
        ELSE IF ~opt.maximize_band_depth /\ ~empty THEN compute_next_band(st)
        ELSE IF con[1] >= 0
        THEN compute_split_schedule(
                 [st EXCEPT !.graph.src_scc = con[1], !.graph.dst_scc = con[2]])
        ELSE IF ~empty THEN compute_next_band(st)
        ELSE carry_dependences(st))

\* the body of the loop of compute_schedule_wcc when solve_lp finds no
\* solution, with "con" what check_conflict has recorded
no_solution(st, con) ==
    Let(st.graph.n_total_row = st.graph.band_start, LAMBDA empty :
        IF st.loc.use_coincidence /\ (~st.loc.force_coincidence \/ ~empty)
        THEN [st EXCEPT !.loc.use_coincidence = FALSE]
        ELSE IF ~opt.maximize_band_depth /\ ~empty THEN compute_next_band(st)
        ELSE IF con[1] >= 0
        THEN compute_split_schedule(
                 [st EXCEPT !.graph.src_scc = con[1], !.graph.dst_scc = con[2]])
        ELSE IF ~empty THEN compute_next_band(st)
        ELSE carry_dependences(st))

\* the rest of the body of the loop after update_schedule
check_conditional_constraint(st) ==
    IF ~st.loc.check_conditional THEN st
    ELSE Let(has_violated_conditional_constraint(st.graph), LAMBDA v :
             IF ~v.any THEN [st EXCEPT !.graph = v.graph]
             ELSE [reset_band([st EXCEPT !.graph = v.graph])
                      EXCEPT !.loc.use_coincidence = st.loc.has_coincidence,
                             !.loc.n_reset = @ + 1])

\* one iteration of the loop of compute_schedule_wcc
compute_schedule_wcc_row(st, con) ==
    Let([st EXCEPT !.graph.src_scc = -1, !.graph.dst_scc = -1,
                   !.graph.node = update_cmaps(st.graph.node, 1)], LAMBDA s1 :
    Let(solve_lp(s1.graph, s1.loc.use_coincidence), LAMBDA sol :
        IF sol = <<>> THEN no_solution(s1, con)
        ELSE Then(update_schedule(s1, sol, TRUE,
                      IF ~s1.loc.has_coincidence \/ s1.loc.use_coincidence
                      THEN 1 ELSE 0),
                  LAMBDA s2 : check_conditional_constraint(s2))))

\* compute_schedule_wcc after its loop
compute_schedule_wcc_end(st) ==
    [sort_statements(
         IF st.graph.n_total_row > st.graph.band_start
         THEN [st EXCEPT !.graph = next_band(st.graph)] ELSE st)
        EXCEPT !.at = "done", !.loc = <<>>]

\* ------------------------------------------------------ the result -------
\* the loop of extract_schedule that finds the band ends, from row r with
\* b bands found
RECURSIVE band_ends(_, _, _, _)
band_ends(band, n, r, b) ==
    IF r >= n THEN <<r>>
    ELSE IF band[r + 1] = <<b>> THEN band_ends(band, n, r + 1, b)
    ELSE <<r>> \o (IF band[r + 1] = <<-1>> THEN <<>>
                   ELSE band_ends(band, n, r + 1, b + 1))

\* sched->node[k] of extract_schedule
extract_schedule_node(graph, arr, node) ==
    IF graph.n_band = 0
    THEN [sched |-> node.sched, n_band |-> 0, band_end |-> <<>>,
          band_id |-> <<>>, coincident |-> <<>>]
    ELSE Let(band_ends(arr.band, graph.n_total_row, 0, 0), LAMBDA band_end :
             [sched |-> node.sched,
              n_band |-> Len(band_end),
              band_end |-> band_end,
              band_id |-> SubSeq(arr.band_id, 1, Len(band_end)),
              coincident |-> SubSeq(arr.coincident, 1, graph.n_total_row)])

RECURSIVE extract_schedule_nodes(_, _, _)
extract_schedule_nodes(graph, arrs, k) ==
    IF k > Len(graph.node) THEN <<>>
    ELSE <<extract_schedule_node(graph, arrs[graph.node[k].id], graph.node[k])>>
         \o extract_schedule_nodes(graph, arrs, k + 1)

extract_schedule(graph, arrs) ==
    [n |-> Len(graph.node), n_band |-> graph.n_band,
     n_total_row |-> graph.n_total_row,
     node |-> extract_schedule_nodes(graph, arrs, 1)]

\* ------------------------------------------------------- the calls -------
\* the relations of the input maps, by name
RelNames == {"Same", "Next", "Prev", "All"}

\* the relation "Zero" holds the pair of the instances 0 only

Rel(name, a, b) ==
    {pr \in Instances(a) \X Instances(b) :
        CASE name = "Same" -> pr[1] = pr[2]
          [] name = "Next" -> Len(pr[1]) = 1 /\ Len(pr[2]) = 1
                              /\ pr[2][1] = pr[1][1] + 1
          [] name = "Prev" -> Len(pr[1]) = 1 /\ Len(pr[2]) = 1
                              /\ pr[1][1] = pr[2][1] + 1
          [] name = "Zero" -> pr[1] = <<0>> /\ pr[2] = <<0>>
          [] OTHER -> TRUE}

\* the maps between the statements of a domain with a relation of "names"
Maps(domain, names) ==
    {m \in {[src |-> x[1], dst |-> x[2],
             rel |-> Rel(x[3], domain[x[1]], domain[x[2]]), ta |-> 0, tb |-> 0] :
               x \in (1..Len(domain)) \X (1..Len(domain)) \X names} :
        m.rel # {}}

\* the union maps of at most one map of S
AtMostOne(S) == {<<>>} \cup {<<m>> : m \in S}

\* the domains of at most n statements: the number of set dimensions of
\* each statement, one for all but the first
Domains(n) ==
    {<<>>} \cup {<<x[1]>> \o Fill(x[2], 1) : x \in (0..1) \X (0..(n - 1))}

\* the schedule constraints given to the scheduler: a validity dependence
\* that may also be a coincidence and a proximity dependence, or a
\* condition and a conditional validity dependence with a coincidence
\* dependence between distinct statements
PlainConstraints(domain) ==
    {[domain |-> domain,
      constraint |-> [validity |-> x[1],
                      coincidence |-> IF x[2] THEN x[1] ELSE <<>>,
                      condition |-> <<>>, conditional_validity |-> <<>>,
                      proximity |-> IF x[3] THEN x[1] ELSE <<>>]] :
        x \in AtMostOne(Maps(domain, RelNames)) \X BOOLEAN \X BOOLEAN}

\* two validity dependences that join two statements in both directions
\* without a cycle of instances
CyclicConstraints(domain) ==
    {[domain |-> domain,
      constraint |-> [validity |-> <<x[1], x[2]>>, coincidence |-> <<>>,
                      condition |-> <<>>, conditional_validity |-> <<>>,
                      proximity |-> <<>>]] :
        x \in {m \in Maps(domain, {"Next"}) : m.src < m.dst}
              \X {m \in Maps(domain, {"Zero"}) : m.src > m.dst}}

ConditionalConstraints(domain) ==
    {[domain |-> domain,
      constraint |-> [validity |-> <<>>, coincidence |-> x[3],
                      condition |-> <<x[1]>>, conditional_validity |-> <<x[2]>>,
                      proximity |-> <<>>]] :
        x \in Maps(domain, {"Next", "Same"}) \X Maps(domain, {"Next", "Prev"})
              \X AtMostOne({m \in Maps(domain, {"Same"}) : m.src < m.dst})}

\* a validity dependence of every instance of a statement on itself, which
\* no row can carry, with a proximity dependence of another relation
ProximityOnlyConstraints(domain) ==
    {[domain |-> domain,
      constraint |-> [validity |-> <<x[1]>>, coincidence |-> <<>>,
                      condition |-> <<>>, conditional_validity |-> <<>>,
                      proximity |-> <<x[2]>>]] :
        x \in {m \in Maps(domain, {"Same"}) : m.src = m.dst}
              \X Maps(domain, {"Next", "All"})}

Constraints ==
    UNION {PlainConstraints(d) \cup ConditionalConstraints(d)
           \cup CyclicConstraints(d) \cup ProximityOnlyConstraints(d) :
             d \in Domains(MaxStmt)}

\* the options of the context
Options ==
    {[algorithm |-> x[1], max_coefficient |-> 1, max_constant_term |-> x[2],
      fuse |-> x[3][1], separate_components |-> x[3][2],
      maximize_band_depth |-> x[5], outer_coincidence |-> x[4],
      split_scaled |-> TRUE] :
        x \in {"ISL", "FEAUTRIER"} \X {-1, 0}
              \X {<<"MAX", TRUE>>, <<"MAX", FALSE>>, <<"MIN", FALSE>>}
              \X BOOLEAN \X BOOLEAN}

CoalesceIdle ==
    /\ p = <<>> /\ tabs = <<>> /\ i = 0 /\ j = 0 /\ pc = "idle" /\ run = 0
    /\ input = <<>> /\ out1 = <<>> /\ n0 = 0 /\ restarts = 0
    /\ last = <<>> /\ ret = "none"

SInit ==
    /\ CoalesceIdle
    /\ opt \in Options
    /\ sc \in Constraints
    /\ graphs = <<>>
    /\ arrays = <<>>
    /\ rowlog = <<>>
    /\ sched = <<>>
    /\ sret = "called"

\* the innermost graph with the arrays of the statements
Top(frame) ==
    [graph |-> frame.graph, at |-> frame.at, loc |-> frame.loc,
     arrays |-> arrays, rowlog |-> rowlog, error |-> "", sub |-> <<>>]

\* compute_split_schedule or compute_component_schedule has written
\* band_id[n_band] of the nodes of s with n_band = max_row, one element past
\* the end of the arrays that graph_init allocates
band_id_overrun(s) ==
    /\ s.at \in {"compute_split_schedule", "compute_component_schedule"}
    /\ s.loc.orig_band >= s.graph.max_row

\* the step that leaves s for the innermost graph, on the graphs "callers";
\* an error returns NULL from isl_schedule_constraints_compute_schedule.
\* A write past the end of band_id[] is undefined behaviour: the call goes
\* on with the scheduler's arrays as they were, or it ends abnormally.
Leave(callers, s) ==
    IF s.error # ""
    THEN /\ graphs' = <<>>
         /\ arrays' = <<>>
         /\ sret' = s.error
         /\ UNCHANGED <<rowlog, sched>>
    ELSE \E fault \in (IF band_id_overrun(s) THEN BOOLEAN ELSE {FALSE}) :
             IF fault
             THEN /\ graphs' = <<>>
                  /\ arrays' = <<>>
                  /\ sret' = "undefined behaviour"
                  /\ UNCHANGED <<rowlog, sched>>
             ELSE /\ graphs' = callers
                      \o <<[graph |-> s.graph, at |-> s.at, loc |-> s.loc]>>
                      \o s.sub
                  /\ arrays' = s.arrays
                  /\ rowlog' = s.rowlog
                  /\ UNCHANGED <<sret, sched>>

Callers == SubSeq(graphs, 1, Len(graphs) - 1)

\* isl_schedule_constraints_compute_schedule up to compute_schedule
ComputeScheduleCall ==
    /\ sret = "called"
    /\ Len(sc.domain) > 0
    /\ graphs' = <<[graph |-> root_graph(sc), at |-> "compute_schedule",
                    loc |-> <<>>]>>
    /\ arrays' = Fill(Len(sc.domain), node_arrays(compute_max_row(sc.domain)))
    /\ rowlog' = Fill(Len(sc.domain), <<>>)
    /\ sret' = "running"
    /\ UNCHANGED <<opt, sc, sched>>
    /\ UNCHANGED cvars

\* the call on an empty domain
ComputeScheduleEmpty ==
    /\ sret = "called"
    /\ Len(sc.domain) = 0
    /\ sched' = extract_schedule(graph_alloc, <<>>)
    /\ sret' = "schedule"
    /\ UNCHANGED <<opt, sc, graphs, arrays, rowlog>>
    /\ UNCHANGED cvars

ComputeSchedule ==
    /\ sret = "running"
    /\ graphs[Len(graphs)].at = "compute_schedule"
    /\ \E s \in {compute_schedule(Top(graphs[Len(graphs)]))} : Leave(Callers, s)
    /\ UNCHANGED <<opt, sc>>
    /\ UNCHANGED cvars

ComputeScheduleWcc ==
    /\ sret = "running"
    /\ graphs[Len(graphs)].at = "compute_schedule_wcc"
    /\ \E s \in {compute_schedule_wcc(Top(graphs[Len(graphs)]))} :
           Leave(Callers, s)
    /\ UNCHANGED <<opt, sc>>
    /\ UNCHANGED cvars

ComputeRow ==
    /\ sret = "running"
    /\ graphs[Len(graphs)].at = "while"
    /\ graphs[Len(graphs)].graph.n_row < graphs[Len(graphs)].graph.maxvar
    /\ \E con \in check_conflict(graphs[Len(graphs)].graph) :
       \E s \in {compute_schedule_wcc_row(Top(graphs[Len(graphs)]), con)} :
           Leave(Callers, s)
    /\ UNCHANGED <<opt, sc>>
    /\ UNCHANGED cvars

SortStatements ==
    /\ sret = "running"
    /\ graphs[Len(graphs)].at = "while"
    /\ graphs[Len(graphs)].graph.n_row >= graphs[Len(graphs)].graph.maxvar
    /\ \E s \in {compute_schedule_wcc_end(Top(graphs[Len(graphs)]))} :
           Leave(Callers, s)
    /\ UNCHANGED <<opt, sc>>
    /\ UNCHANGED cvars

\* the return of compute_sub_schedule into compute_split_schedule or
\* compute_component_schedule
SubScheduleReturn ==
    /\ sret = "running"
    /\ Len(graphs) > 1
    /\ graphs[Len(graphs)].at = "done"
    /\ \E s \in {IF graphs[Len(graphs) - 1].at = "compute_split_schedule"
                 THEN compute_split_schedule_next(Top(graphs[Len(graphs) - 1]),
                                                  graphs[Len(graphs)].graph)
                 ELSE compute_component_schedule_next(
                          Top(graphs[Len(graphs) - 1]),
                          graphs[Len(graphs)].graph)} :
           Leave(SubSeq(graphs, 1, Len(graphs) - 2), s)
    /\ UNCHANGED <<opt, sc>>
    /\ UNCHANGED cvars

\* the return of compute_schedule into
\* isl_schedule_constraints_compute_schedule
ExtractSchedule ==
    /\ sret = "running"
    /\ Len(graphs) = 1
    /\ graphs[1].at = "done"
    /\ sched' = extract_schedule(graphs[1].graph, arrays)
    /\ sret' = "schedule"
    /\ graphs' = <<>>
    /\ arrays' = <<>>
    /\ UNCHANGED <<opt, sc, rowlog>>
    /\ UNCHANGED cvars

SNext ==
    \/ ComputeScheduleCall
    \/ ComputeScheduleEmpty
    \/ ComputeSchedule
    \/ ComputeScheduleWcc
    \/ ComputeRow
    \/ SortStatements
    \/ SubScheduleReturn
    \/ ExtractSchedule

SpecSched == SInit /\ [][SNext]_vars

\* ------------------------------------------------- schedule validity -----
\* a is lexicographically smaller than or equal to b, from position k on
RECURSIVE LexLeqFrom(_, _, _)
LexLeqFrom(a, b, k) ==
    IF k > Len(a) \/ k > Len(b) THEN TRUE
    ELSE IF a[k] # b[k] THEN a[k] < b[k]
    ELSE LexLeqFrom(a, b, k + 1)

\* the full schedule vector of instance pt of statement id in the
\* returned schedule
ScheduleVector(id, pt) == node_extract_schedule(sched.node[id], pt)

\* the validity dependences of the input: <<src, x, dst, y>>
ValidityDependences ==
    UNION {{<<sc.constraint.validity[k].src, pr[1],
              sc.constraint.validity[k].dst, pr[2]>> :
                pr \in sc.constraint.validity[k].rel} :
           k \in 1..Len(sc.constraint.validity)}

\* C7: whenever isl_schedule_constraints_compute_schedule returns a
\* schedule, the full schedule vector of the sink of every validity
\* dependence of the input is lexicographically greater than or equal to
\* the schedule vector of its source.
C7_ScheduleValidity ==
    sret = "schedule" =>
        \A d \in ValidityDependences :
            LexLeqFrom(ScheduleVector(d[1], d[2]), ScheduleVector(d[3], d[4]), 1)

\* a schedule is returned for an input with a validity dependence between
\* two statements
C7_Witness ==
    /\ sret = "schedule"
    /\ \E d \in ValidityDependences : d[1] # d[3]

\* ------------------------------------------------- constant-term cap -----
\* the constant terms of the rows of the returned schedule
ConstantTerms ==
    UNION {{sched.node[k].sched[r][1] : r \in 1..Len(sched.node[k].sched)} :
           k \in 1..sched.n}

\* C10: when schedule_max_constant_term is set to cap >= 0, the constant
\* term of every row of every node of the returned schedule is at most cap.
C10_ConstantCap ==
    (sret = "schedule" /\ opt.max_constant_term >= 0) =>
        \A c \in ConstantTerms : c <= opt.max_constant_term

\* a schedule with rows is returned under a cap on the constant term
C10_Witness ==
    /\ sret = "schedule"
    /\ opt.max_constant_term >= 0
    /\ sched.n_total_row > 0

\* ------------------------------------------------ coincidence marking ----
\* the value of row r of the returned schedule of statement id in pt
RowValue(id, r, pt) == isl_aff_eval(sched.node[id].sched[r], pt)

\* C8: for every node and every row of the extracted schedule whose
\* coincident flag is set, the dependence distance of that row is zero over
\* every coincidence dependence of the graph the row was appended to.
C8_CoincidenceMarking ==
    sret = "schedule" =>
        \A k \in 1..sched.n : \A r \in 1..Len(sched.node[k].coincident) :
            sched.node[k].coincident[r] = 1 =>
                \A d \in rowlog[k][r].coincidence :
                    RowValue(d[3], r, d[4]) - RowValue(d[1], r, d[2]) = 0

\* a row with the coincident flag set is returned for a graph with
\* coincidence dependences
C8_Witness ==
    /\ sret = "schedule"
    /\ \E k \in 1..sched.n : \E r \in 1..Len(sched.node[k].coincident) :
           /\ sched.node[k].coincident[r] = 1
           /\ rowlog[k][r].coincidence # {}

\* ----------------------------------------------- conditional validity ----
\* the rows up to r of the band of row r of statement k
BandRows(k, r) ==
    {q \in 1..r : rowlog[k][q].band = rowlog[k][r].band}

\* row r of the returned schedule schedules the source of one of the
\* dependences deps after its sink
ViolatedByRow(deps, r) ==
    \E d \in deps : RowValue(d[1], r, d[2]) > RowValue(d[3], r, d[4])

\* the band rows "rows" map source and sink of every dependence of deps to
\* the same point
LocalInRows(deps, rows) ==
    \A d \in deps : \A q \in rows :
        RowValue(d[1], q, d[2]) = RowValue(d[3], q, d[4])

MaxDist == 2
\* schedule_max_coefficient is in 1..MaxCap
MaxCap == 2

\* isl_seq_abs_min_non_zero on the two columns of a row: the position of
\* the element of least absolute value that is not zero, -1 if there is none
isl_seq_abs_min_non_zero(row) ==
    IF row[1] = 0 /\ row[2] = 0 THEN -1
    ELSE IF row[2] = 0 THEN 0
    ELSE IF row[1] = 0 THEN 1
    ELSE IF Abs(row[2]) < Abs(row[1]) THEN 1 ELSE 0

\* the column operations of isl_mat_left_hermite on h = [M, Q]: M the row
\* being reduced and Q the matrix with S = H Q, as its rows
mat_exchange(h) == [M |-> <<h.M[2], h.M[1]>>, Q |-> <<h.Q[2], h.Q[1]>>]

mat_oppose(h) ==
    [M |-> <<0 - h.M[1], h.M[2]>>,
     Q |-> <<(<<0 - h.Q[1][1], 0 - h.Q[1][2]>>), h.Q[2]>>]

\* column 2 minus m times column 1; row 1 of Q plus m times row 2
mat_subtract(h, m) ==
    [M |-> <<h.M[1], h.M[2] - m * h.M[1]>>,
     Q |-> <<(<<h.Q[1][1] + m * h.Q[2][1], h.Q[1][2] + m * h.Q[2][2]>>),
             h.Q[2]>>]

\* the loop that clears the second column
RECURSIVE mat_eliminate(_)
mat_eliminate(h) ==
    IF h.M[2] = 0 THEN h
    ELSE Let(mat_subtract(h, h.M[2] \div h.M[1]), LAMBDA g :
             IF g.M[2] # 0 THEN mat_eliminate(mat_exchange(g)) ELSE g)

\* isl_mat_left_hermite of a matrix of at most one row and two columns:
\* Q and the number of columns of H that are not zero
isl_mat_left_hermite(mat) ==
    Let([M |-> IF Len(mat) = 0 THEN <<0, 0>> ELSE mat[1],
         Q |-> << <<1, 0>>, <<0, 1>> >>], LAMBDA h :
        IF isl_seq_abs_min_non_zero(h.M) = -1 THEN [Q |-> h.Q, rank |-> 0]
        ELSE Let(IF isl_seq_abs_min_non_zero(h.M) # 0 THEN mat_exchange(h)
                 ELSE h, LAMBDA h1 :
             Let(IF h1.M[1] < 0 THEN mat_oppose(h1) ELSE h1, LAMBDA h2 :
                 [Q |-> mat_eliminate(h2).Q, rank |-> 1])))

\* the linear parts of the rows k.. of a schedule matrix
RECURSIVE isl_mat_sub_alloc(_, _)
isl_mat_sub_alloc(mat, k) ==
    IF k > Len(mat) THEN <<>>
    ELSE << <<mat[k][2], mat[k][3]>> >> \o isl_mat_sub_alloc(mat, k + 1)

isl_mat_transpose(mat) ==
    << <<mat[1][1], mat[2][1]>>, <<mat[1][2], mat[2][2]>> >>

\* node_update_cmap for the statement with two set dimensions
node_update_cmap_2d(node) ==
    Let(isl_mat_left_hermite(isl_mat_sub_alloc(node.sched, 1)), LAMBDA h :
        [node EXCEPT !.cmap = isl_mat_transpose(h.Q), !.rank = h.rank])

isl_mat_vec_product_2d(mat, vec) ==
    <<mat[1][1] * vec[1] + mat[1][2] * vec[2],
      mat[2][1] * vec[1] + mat[2][2] * vec[2]>>

\* add_bound_coefficient_constraints on the values t of the LP variables
\* t_x = t_x^+ - t_x^-
add_bound_coefficient_constraints_2d(t) ==
    opt.max_coefficient # -1 =>
        \A c \in 1..2 : t[c] <= opt.max_coefficient
                        /\ 0 - t[c] <= opt.max_coefficient

\* add_all_validity_constraints: the distance of c = cmap t over every
\* validity dependence is not negative
add_all_validity_constraints_2d(node, t) ==
    Let(isl_mat_vec_product_2d(node.cmap, t), LAMBDA c :
        \A d \in sc.distance : c[1] * d[1] + c[2] * d[2] >= 0)

\* the non-triviality region of solve_lp
non_trivial_2d(node, t) == \E c \in (1 + node.rank)..2 : t[c] # 0

\* the variables of the LP in their order: the sum of the parts of the
\* coefficients, c_0, and the negative and positive part of each t_x
lp_variables_2d(t) ==
    <<Abs(t[1]) + Abs(t[2]), 0,
      IF t[1] < 0 THEN 0 - t[1] ELSE 0, IF t[1] > 0 THEN t[1] ELSE 0,
      IF t[2] < 0 THEN 0 - t[2] ELSE 0, IF t[2] > 0 THEN t[2] ELSE 0>>

\* solve_lp: the lexicographically smallest point, <<>> if there is none
solve_lp_2d(node) ==
    Let(lexmin_from(
            {<<lp_variables_2d(t), t>> :
                t \in {s \in (0 - opt.max_coefficient..opt.max_coefficient)
                             \X (0 - opt.max_coefficient..opt.max_coefficient) :
                          /\ add_bound_coefficient_constraints_2d(s)
                          /\ non_trivial_2d(node, s)
                          /\ add_all_validity_constraints_2d(node, s)}}, 1),
        LAMBDA S : IF S = {} THEN <<>> ELSE (CHOOSE x \in S : TRUE)[2])

\* update_schedule with use_cmap set: the row c_0 = 0, c_x = cmap t
update_schedule_2d(graph, t) ==
    [graph EXCEPT
        !.node[1].sched = Append(@, <<0>> \o isl_mat_vec_product_2d(
                                               graph.node[1].cmap, t)),
        !.n_row = @ + 1, !.n_total_row = @ + 1]

Distances2 ==
    {d \in (0 - MaxDist..MaxDist) \X (0 - MaxDist..MaxDist) : d # <<0, 0>>}

UInit ==
    /\ CoalesceIdle
    /\ opt \in {[algorithm |-> "ISL", max_coefficient |-> c,
                 max_constant_term |-> -1, maximize_band_depth |-> b] :
                   c \in 1..MaxCap, b \in BOOLEAN}
    /\ sc \in {[domain |-> <<2>>, distance |-> {x[1], x[2]}] :
                 x \in Distances2 \X Distances2}
    /\ graphs = <<>>
    /\ arrays = <<>>
    /\ rowlog = <<>>
    /\ sched = <<>>
    /\ sret = "called"

\* the graph of the statement at the loop of compute_schedule_wcc
UniformCall ==
    /\ sret = "called"
    /\ graphs' = <<[graph |-> [node |-> <<[sched |-> <<>>, nvar |-> 2, id |-> 1,
                                           rank |-> 0,
                                           cmap |-> << <<1, 0>>, <<0, 1>> >>]>>,
                               maxvar |-> 2, n_row |-> 0, n_total_row |-> 0,
                               band_start |-> 0, src_scc |-> -1],
                    at |-> "while"]>>
    /\ sret' = "running"
    /\ UNCHANGED <<opt, sc, arrays, rowlog, sched>>
    /\ UNCHANGED cvars

\* setup_lp, solve_lp and update_schedule of one turn of the loop
UniformRow ==
    /\ sret = "running"
    /\ graphs[1].graph.n_row < graphs[1].graph.maxvar
    /\ \E node \in {node_update_cmap_2d(graphs[1].graph.node[1])} :
       \E t \in {solve_lp_2d(node)} :
           /\ t # <<>>
           /\ graphs' = <<[graphs[1] EXCEPT
                   !.graph = update_schedule_2d(
                                 [graphs[1].graph EXCEPT !.node[1] = node], t)]>>
    /\ UNCHANGED <<opt, sc, arrays, rowlog, sched, sret>>
    /\ UNCHANGED cvars

\* a driver that carries dependences when no pair of SCCs was recorded,
\* whether the band is empty or not
no_solution_2d_carry(graph) ==
    Let(graph.n_total_row = graph.band_start, LAMBDA empty :
        IF ~opt.maximize_band_depth /\ ~empty THEN "compute_next_band"
        ELSE IF graph.src_scc >= 0 THEN "compute_split_schedule"
        ELSE "carry_dependences")

\* the body of the loop when solve_lp finds no solution: the function
\* through which the driver returns.  The graph has no coincidence edge,
\* so use_coincidence is 0 and nothing is retried.
no_solution_2d(graph) ==
    Let(graph.n_total_row = graph.band_start, LAMBDA empty :
        IF ~opt.maximize_band_depth /\ ~empty THEN "compute_next_band"
        ELSE IF graph.src_scc >= 0 THEN "compute_split_schedule"
        ELSE IF ~empty THEN "compute_next_band"
        ELSE "carry_dependences")

\* the LP has no solution: the loop is left for the function that
\* no_solution_2d names, which this specification does not follow.
\* check_conflict records nothing, the graph having one SCC.
UniformNoSolution ==
    /\ sret = "running"
    /\ graphs[1].graph.n_row < graphs[1].graph.maxvar
    /\ solve_lp_2d(node_update_cmap_2d(graphs[1].graph.node[1])) = <<>>
    /\ sched' = graphs[1].graph.node[1].sched
    /\ graphs' = <<>>
    /\ sret' = no_solution_2d([graphs[1].graph EXCEPT !.src_scc = -1])
    /\ UNCHANGED <<opt, sc, arrays, rowlog>>
    /\ UNCHANGED cvars

\* the loop ends with a row for every set dimension
UniformDone ==
    /\ sret = "running"
    /\ graphs[1].graph.n_row >= graphs[1].graph.maxvar
    /\ sched' = graphs[1].graph.node[1].sched
    /\ graphs' = <<>>
    /\ sret' = "schedule"
    /\ UNCHANGED <<opt, sc, arrays, rowlog>>
    /\ UNCHANGED cvars

UNext ==
    \/ UniformCall
    \/ UniformRow
    \/ UniformNoSolution
    \/ UniformDone

SpecUniform == UInit /\ [][UNext]_vars

\* the rows that update_schedule has appended
UniformRows ==
    IF sret = "running" THEN graphs[1].graph.node[1].sched
    ELSE IF sret # "called" THEN sched
    ELSE <<>>

\* C11: with schedule_max_coefficient set to cap >= 0, every variable
\* coefficient of every schedule row appended by update_schedule has
\* absolute value at most cap, also for the rows of the main LP, whose
\* stored coefficients are cmap * t.
C11_CoefficientCap ==
    \A r \in 1..Len(UniformRows) : \A c \in 2..3 :
        Abs(UniformRows[r][c]) <= opt.max_coefficient

\* a second row of a band has been appended: its coefficients are the
\* product of a cmap that is not the identity with the solution
C11_Witness ==
    /\ sret = "running"
    /\ Len(UniformRows) = 2
    /\ graphs[1].graph.node[1].cmap # << <<1, 0>>, <<0, 1>> >>

\* ------------------------------------------- the driver without a solution
\* the innermost graph
TopFrame == graphs[Len(graphs)]

\* the graph on which setup_lp and solve_lp work in the next turn of the
\* loop of compute_schedule_wcc
LPFrame ==
    [Top(TopFrame) EXCEPT !.graph.src_scc = -1, !.graph.dst_scc = -1,
                          !.graph.node = update_cmaps(TopFrame.graph.node, 1)]

\* the next turn of the loop of compute_schedule_wcc computes a row
AtRow ==
    /\ sret = "running"
    /\ Len(graphs) > 0
    /\ TopFrame.at = "while"
    /\ TopFrame.graph.n_row < TopFrame.graph.maxvar

\* the current band has no row
EmptyBand == TopFrame.graph.n_total_row = TopFrame.graph.band_start

\* the next row is the first of its band, the option is set and the graph
\* has coincidence edges
OuterCoincidenceCase ==
    /\ AtRow
    /\ opt.outer_coincidence
    /\ TopFrame.loc.has_coincidence
    /\ EmptyBand

\* the step is the one that leaves s for the innermost graph
StepTo(s) == Leave(Callers, s)

MaximizeBandDepthCase ==
    /\ sret = "running"
    /\ graphs[1].graph.n_row < graphs[1].graph.maxvar
    /\ opt.maximize_band_depth
    /\ graphs[1].graph.n_total_row > graphs[1].graph.band_start
    /\ solve_lp_2d(node_update_cmap_2d(graphs[1].graph.node[1])) = <<>>

CarryFrame ==
    IF TopFrame.at = "compute_schedule_wcc"
    THEN [Top(TopFrame) EXCEPT
             !.graph = compute_maxvar(sort_sccs(detect_sccs(TopFrame.graph)))]
    ELSE LPFrame

\* the next step may call carry_dependences
CarryCalled ==
    /\ sret = "running"
    /\ Len(graphs) > 0
    /\ \/ /\ TopFrame.at = "compute_schedule_wcc"
          /\ need_feautrier_step(CarryFrame.graph)
       \/ /\ AtRow
          /\ EmptyBand
          /\ TopFrame.loc.use_coincidence => TopFrame.loc.force_coincidence
          /\ solve_lp(LPFrame.graph, TopFrame.loc.use_coincidence) = <<>>

\* the solution of the carry LP is trivial on a node that needs a row
TrivialCarry ==
    /\ CarryCalled
    /\ carry_lexmin(CarryFrame.graph).size # 0
    /\ carry_lexmin(CarryFrame.graph).el1 < count_basic_maps(CarryFrame.graph)
    /\ is_any_trivial(CarryFrame.graph, carry_lexmin(CarryFrame.graph).node)

\* the step went to compute_split_schedule on a recorded pair of SCCs, so
\* that carry_dependences was not called
SplitInstead ==
    /\ AtRow
    /\ \E con \in check_conflict(LPFrame.graph) :
           /\ con[1] >= 0
           /\ StepTo(compute_split_schedule(
                         [LPFrame EXCEPT !.graph.src_scc = con[1],
                                         !.graph.dst_scc = con[2]]))

\* the step appends no row of update_schedule to any statement
NoRowOfUpdateSchedule ==
    \A k \in 1..Len(rowlog) :
        /\ Len(rowlog'[k]) >= Len(rowlog[k])
        /\ \A r \in 1..Len(rowlog'[k]) :
               IF r <= Len(rowlog[k]) THEN rowlog'[k][r] = rowlog[k][r]
               ELSE rowlog'[k][r].by # "update_schedule"

\* C14: when the solution of the carry LP is trivial on a node that needs
\* a row, carry_dependences appends no row; with more than one SCC it
\* continues with compute_component_schedule, and otherwise it fails with
\* 'unable to construct non-trivial solution' and no schedule has changed.
C14_TrivialCarry ==
    [][TrivialCarry =>
        \/ SplitInstead
        \/ IF CarryFrame.graph.scc > 1
           THEN /\ StepTo(compute_component_schedule(CarryFrame))
                /\ NoRowOfUpdateSchedule
           ELSE /\ sret' = "unable to construct non-trivial solution"
                /\ rowlog' = rowlog]_vars

\* carry_dependences has failed on a trivial solution
C14_Witness == sret = "unable to construct non-trivial solution"

\* a trivial solution on a graph of several SCCs
TrivialCarryComponents == TrivialCarry /\ CarryFrame.graph.scc > 1

\* ------------------------------------------ further coalescer properties
\* the map and the tableaus that coalesce() works on
CoalesceMap == [p |-> p, tabs |-> tabs]

Represents(t, bmap) ==
    /\ ~IsNull(t)
    /\ Len(t.con) = Len(bmap.eq) + Len(bmap.ineq)
    /\ t.rational = bmap.rational
    /\ \A k \in 1..Len(bmap.eq) :
          /\ t.eq[k] /\ ~t.unres[k]
          /\ t.con[k] = bmap.eq[k] \/ t.con[k] = isl_seq_neg(bmap.eq[k])
    /\ \A k \in 1..Len(bmap.ineq) :
          /\ ~t.eq[Len(bmap.eq) + k] /\ ~t.unres[Len(bmap.eq) + k]
          /\ t.con[Len(bmap.eq) + k] = bmap.ineq[k]

\* C16: between the calls of coalesce_pair, tabs[k] represents exactly the
\* constraints of map->p[k] for every k < map->n, and tabs[k] is NULL for
\* every k >= map->n of the array.
C16_Pairing ==
    pc \in {"coalesce", "finish"} =>
        /\ Len(tabs) >= Len(p)
        /\ \A k \in 1..Len(p) : Represents(tabs[k], p[k])
        /\ \A k \in (Len(p) + 1)..Len(tabs) : IsNull(tabs[k])

\* is_adj_eq_extension has relaxed the second basic map of the input,
\* exchanged the pair and dropped the first; a freed slot is behind the
\* basic map that is left
C16_Witness ==
    /\ pc \in {"coalesce", "finish"} /\ run = 1
    /\ last.changed = 1 /\ last.by = "relax"
    /\ Len(input) = 2 /\ Len(input[1].eq) > 0 /\ Len(input[2].eq) = 0
    /\ Len(p) = 1 /\ Len(tabs) = 2

\* ------------------------------------------- C17: failed merge attempts --
\* the call of coalesce_pair(i, j) made by this step of the loop of
\* coalesce() returned 0
ReturnsZero == pc = "coalesce" /\ last'.changed = 0

MaxCoord2 == 3

Window2 == ((0 - 1)..(MaxCoord2 + 1)) \X ((0 - 1)..(MaxCoord2 + 1))

Val2(r, pt) == r[1] + r[2] * pt[1] + r[3] * pt[2]

isl_seq_neg_2d(r) == <<-r[1], -r[2], -r[3]>>

\* the points of a basic map or of the tableau made from it
Points2(bmap) ==
    {pt \in Window2 :
        /\ \A k \in 1..Len(bmap.eq) : Val2(bmap.eq[k], pt) = 0
        /\ \A k \in 1..Len(bmap.ineq) : Val2(bmap.ineq[k], pt) >= 0}

\* isl_tab_from_basic_map: the tableau holds the constraints of the basic
\* map, the equalities first
isl_tab_from_basic_map_2d(bmap) == [eq |-> bmap.eq, ineq |-> bmap.ineq]

\* the rows of a sequence without row k
RECURSIVE Without(_, _, _)
Without(rows, k, l) ==
    IF l > Len(rows) THEN <<>>
    ELSE (IF l = k THEN <<>> ELSE <<rows[l]>>) \o Without(rows, k, l + 1)

\* isl_tab_is_redundant for inequality k (1-based) of the tableau: the
\* other constraints imply it
isl_tab_is_redundant_2d(tab, k) ==
    Points2([tab EXCEPT !.ineq = Without(tab.ineq, k, 1)]) = Points2(tab)

\* isl_tab_ineq_type on an integer tableau whose vertices are integer
\* points: a row that is -1 on all of the tableau is adjacent to an
\* equality, a row whose maximum -1 is taken on the whole facet of one
\* inequality c of the tableau (row = -1 - c) is adjacent to that inequality
isl_tab_ineq_type_2d(tab, r) ==
    Let(Points2(tab), LAMBDA P :
        IF P = {} THEN "redundant"
        ELSE Let({Val2(r, pt) : pt \in P}, LAMBDA V :
            IF Min(V) >= 0 THEN "redundant"
            ELSE IF Max(V) >= 0 THEN "cut"
            ELSE IF Max(V) # -1 THEN "separate"
            ELSE IF Cardinality(V) = 1 THEN "adj_eq"
            ELSE IF \E k \in 1..Len(tab.ineq) : \A pt \in P :
                        Val2(r, pt) + 1 + Val2(tab.ineq[k], pt) = 0
            THEN "adj_ineq"
            ELSE "separate"))

\* status_in, isl_coalesce.c:34-46
status_in_2d(ineq, tab) ==
    Let(isl_tab_ineq_type_2d(tab, ineq), LAMBDA type :
        CASE type = "redundant" -> STATUS_VALID
          [] type = "separate" -> STATUS_SEPARATE
          [] type = "cut" -> STATUS_CUT
          [] type = "adj_eq" -> STATUS_ADJ_EQ
          [] type = "adj_ineq" -> STATUS_ADJ_INEQ
          [] OTHER -> STATUS_ERROR)

\* eq_status_in, isl_coalesce.c:54-81: the statuses from equality k on
\* (1-based); the negated row first, then the row itself; the loop stops
\* after an equality with a separate status
RECURSIVE eq_status_in_2d(_, _, _)
eq_status_in_2d(bmap_i, tab_j, k) ==
    IF k > Len(bmap_i.eq) THEN <<>>
    ELSE Let(<<status_in_2d(isl_seq_neg_2d(bmap_i.eq[k]), tab_j),
               status_in_2d(bmap_i.eq[k], tab_j)>>, LAMBDA st :
             IF st[1] = STATUS_SEPARATE \/ st[2] = STATUS_SEPARATE
             THEN st
             ELSE st \o eq_status_in_2d(bmap_i, tab_j, k + 1))

\* ineq_status_in, isl_coalesce.c:89-113: the statuses from inequality k on
RECURSIVE ineq_status_in_2d(_, _, _, _)
ineq_status_in_2d(bmap_i, tab_i, tab_j, k) ==
    IF k > Len(bmap_i.ineq) THEN <<>>
    ELSE Let(IF isl_tab_is_redundant_2d(tab_i, k) THEN STATUS_REDUNDANT
             ELSE status_in_2d(bmap_i.ineq[k], tab_j), LAMBDA st :
             IF st = STATUS_SEPARATE THEN <<st>>
             ELSE <<st>> \o ineq_status_in_2d(bmap_i, tab_i, tab_j, k + 1))

\* coalesce_local_pair, isl_coalesce.c:1363-1425: the branch selected by
\* the four status arrays
branch(eq_i, n_eq_i, ineq_i, n_ineq_i, eq_j, n_eq_j, ineq_j, n_ineq_j) ==
    IF any(eq_i, 2 * n_eq_i, STATUS_SEPARATE) THEN "done"
    ELSE IF any(eq_j, 2 * n_eq_j, STATUS_SEPARATE) THEN "done"
    ELSE IF any(ineq_i, n_ineq_i, STATUS_SEPARATE) THEN "done"
    ELSE IF any(ineq_j, n_ineq_j, STATUS_SEPARATE) THEN "done"
    ELSE IF all(eq_i, 2 * n_eq_i, STATUS_VALID)
            /\ all(ineq_i, n_ineq_i, STATUS_VALID)
    THEN "drop j"
    ELSE IF all(eq_j, 2 * n_eq_j, STATUS_VALID)
            /\ all(ineq_j, n_ineq_j, STATUS_VALID)
    THEN "drop i"
    ELSE IF any(eq_i, 2 * n_eq_i, STATUS_ADJ_EQ) THEN "check_eq_adj_eq"
    ELSE IF any(eq_j, 2 * n_eq_j, STATUS_ADJ_EQ) THEN "check_eq_adj_eq"
    ELSE IF any(eq_i, 2 * n_eq_i, STATUS_ADJ_INEQ)
            \/ any(eq_j, 2 * n_eq_j, STATUS_ADJ_INEQ)
    THEN "check_adj_eq"
    ELSE IF any(ineq_i, n_ineq_i, STATUS_ADJ_EQ)
            \/ any(ineq_j, n_ineq_j, STATUS_ADJ_EQ)
    THEN "BAD ADJ INEQ"
    ELSE IF any(ineq_i, n_ineq_i, STATUS_ADJ_INEQ)
            \/ any(ineq_j, n_ineq_j, STATUS_ADJ_INEQ)
    THEN "check_adj_ineq"
    ELSE "check_facets"

\* the status arrays of the pair (bi, bj) as coalesce_local_pair computes
\* them, each cut off where the function stops computing
Statuses2(bi, bj) ==
    Let(eq_status_in_2d(bi, isl_tab_from_basic_map_2d(bj), 1), LAMBDA eq_i :
        IF any(eq_i, 2 * Len(bi.eq), STATUS_SEPARATE)
        THEN <<eq_i, <<>>, <<>>, <<>>>>
        ELSE
    Let(eq_status_in_2d(bj, isl_tab_from_basic_map_2d(bi), 1), LAMBDA eq_j :
        IF any(eq_j, 2 * Len(bj.eq), STATUS_SEPARATE)
        THEN <<eq_i, <<>>, eq_j, <<>>>>
        ELSE
    Let(ineq_status_in_2d(bi, isl_tab_from_basic_map_2d(bi),
                          isl_tab_from_basic_map_2d(bj), 1), LAMBDA ineq_i :
        IF any(ineq_i, Len(bi.ineq), STATUS_SEPARATE)
        THEN <<eq_i, ineq_i, eq_j, <<>>>>
        ELSE <<eq_i, ineq_i, eq_j,
               ineq_status_in_2d(bj, isl_tab_from_basic_map_2d(bj),
                                 isl_tab_from_basic_map_2d(bi), 1)>>)))

\* coalesce_local_pair on a pair with two set dimensions: the branch taken
coalesce_local_pair_2d(bi, bj) ==
    Let(Statuses2(bi, bj), LAMBDA st :
        branch(st[1], Len(bi.eq), st[2], Len(bi.ineq),
               st[3], Len(bj.eq), st[4], Len(bj.ineq)))

\* isl_tab_is_equality for inequality k (1-based) of the tableau: the row
\* is zero on all of the tableau
isl_tab_is_equality_2d(tab, k) ==
    \A pt \in Points2(tab) : Val2(tab.ineq[k], pt) = 0

\* isl_tab_relax for inequality k of the tableau
isl_tab_relax_2d(tab, k) == [tab EXCEPT !.ineq[k][1] = @ + 1]

\* isl_tab_select_facet for inequality k of the tableau
isl_tab_select_facet_2d(tab, k) == [tab EXCEPT !.eq = Append(@, tab.ineq[k])]

\* contains, isl_coalesce.c:355-381, from equality k on (1-based): the
\* answer and the basic map as the function leaves it.  Each equality row
\* is negated in place before each of its two classifications.
RECURSIVE contains_2d(_, _, _, _)
contains_2d(bmap, ineq_i, tab, k) ==
    IF k > Len(bmap.eq)
    THEN [res |-> IF \A e \in 1..Len(bmap.ineq) :
                        ineq_i[e] # STATUS_REDUNDANT
                            => status_in_2d(bmap.ineq[e], tab) = STATUS_VALID
                  THEN 1 ELSE 0,
          bmap |-> bmap]
    ELSE Let([bmap EXCEPT !.eq[k] = isl_seq_neg_2d(@)], LAMBDA once :
         IF status_in_2d(once.eq[k], tab) # STATUS_VALID
         THEN [res |-> 0, bmap |-> once]
         ELSE Let([once EXCEPT !.eq[k] = isl_seq_neg_2d(@)], LAMBDA twice :
              IF status_in_2d(twice.eq[k], tab) # STATUS_VALID
              THEN [res |-> 0, bmap |-> twice]
              ELSE contains_2d(twice, ineq_i, tab, k + 1)))

\* is_adj_eq_extension, isl_coalesce.c:553-591 (a and b are 0-based, k is
\* the 1-based position of the inequality of basic map a)
is_adj_eq_extension_2d(m, a, b, k, ineq_j) ==
    IF isl_tab_is_equality_2d(m.tabs[a + 1], k)
    THEN [changed |-> 0, p |-> m.p, tabs |-> m.tabs]
    ELSE
    LET snap == isl_tab_snap(m.tabs[a + 1])
        relaxed == isl_tab_relax_2d(m.tabs[a + 1], k)
        snap2 == isl_tab_snap(relaxed)
        facet == isl_tab_select_facet_2d(relaxed, k)
    IN  Let(contains_2d(m.p[b + 1], ineq_j, facet, 1), LAMBDA super :
        Let([p |-> [m.p EXCEPT ![b + 1] = super.bmap], tabs |-> m.tabs],
            LAMBDA m1 :
            IF super.res # 0
            THEN Let([p |-> [m1.p EXCEPT ![a + 1].ineq[k][1] = @ + 1],
                      tabs |-> [m1.tabs EXCEPT ![a + 1] =
                                  isl_tab_rollback(facet, snap2)]],
                     LAMBDA m2 :
                     [changed |-> 1] @@
                     (IF b < a THEN drop(exchange(m2, a, b), a)
                      ELSE drop(m2, b)))
            ELSE [changed |-> 0, p |-> m1.p,
                  tabs |-> [m1.tabs EXCEPT ![a + 1] =
                              isl_tab_rollback(facet, snap)]]))

\* check_adj_eq, isl_coalesce.c:1137-1181, up to the return of
\* is_adj_eq_extension; st holds the status arrays eq_i, ineq_i, eq_j,
\* ineq_j of the pair (a, b)
RECURSIVE check_adj_eq_2d(_, _, _, _)
check_adj_eq_2d(m, a, b, st) ==
    LET bi == m.p[a + 1]
        bj == m.p[b + 1]
        zero == [changed |-> 0, p |-> m.p, tabs |-> m.tabs,
                 rule |-> "check_adj_eq"]
    IN  IF any(st[1], 2 * Len(bi.eq), STATUS_ADJ_INEQ)
           /\ any(st[3], 2 * Len(bj.eq), STATUS_ADJ_INEQ)
        THEN zero
        ELSE IF any(st[1], 2 * Len(bi.eq), STATUS_ADJ_INEQ)
        THEN check_adj_eq_2d(m, b, a, <<st[3], st[4], st[1], st[2]>>)
        ELSE IF any(st[1], 2 * Len(bi.eq), STATUS_CUT) THEN zero
        ELSE IF any(st[2], Len(bi.ineq), STATUS_CUT) THEN zero
        ELSE IF \/ count(st[2], Len(bi.ineq), STATUS_ADJ_EQ) # 1
                \/ any(st[4], Len(bj.ineq), STATUS_ADJ_EQ)
                \/ any(st[2], Len(bi.ineq), STATUS_ADJ_INEQ)
                \/ any(st[4], Len(bj.ineq), STATUS_ADJ_INEQ)
        THEN zero
        ELSE [rule |-> "is_adj_eq_extension"] @@
             is_adj_eq_extension_2d(m, a, b,
                Min({l \in 1..Len(bi.ineq) : st[2][l] = STATUS_ADJ_EQ}),
                st[4])

\* the basic maps with two set dimensions: triangles, rectangles, segments
\* and points, with their equalities explicit and no redundant constraint
Triangles2 ==
    {[eq |-> <<>>,
      ineq |-> << <<-c[1], 1, 0>>, <<-c[2], 0, 1>>, <<c[3], -1, -1>> >>] :
        c \in {d \in (0..MaxCoord2) \X (0..MaxCoord2) \X (1..MaxCoord2) :
                  d[1] + d[2] < d[3]}}

Rectangles2 ==
    {[eq |-> <<>>,
      ineq |-> << <<-c[1], 1, 0>>, <<c[2], -1, 0>>,
                  <<-c[3], 0, 1>>, <<c[4], 0, -1>> >>] :
        c \in {d \in (0..MaxCoord2) \X (0..MaxCoord2)
                     \X (0..MaxCoord2) \X (0..MaxCoord2) :
                  d[1] < d[2] /\ d[3] < d[4]}}

Segments2 ==
    {[eq |-> << <<-c[1], 1, 0>> >>,
      ineq |-> << <<-c[2], 0, 1>>, <<c[3], 0, -1>> >>] :
        c \in {d \in (0..MaxCoord2) \X (0..MaxCoord2) \X (0..MaxCoord2) :
                  d[2] < d[3]}}

Points2D ==
    {[eq |-> << <<-c[1], 1, 0>>, <<-c[2], 0, 1>> >>, ineq |-> <<>>] :
        c \in (1..MaxCoord2) \X (1..MaxCoord2)}

PInit ==
    /\ SchedIdle
    /\ input \in {<<x[1], x[2]>> :
                    x \in (Triangles2 \cup Rectangles2)
                          \X (Segments2 \cup Points2D)}
                 \cup {<<x[1], x[2]>> :
                    x \in (Segments2 \cup Points2D) \X Triangles2}
    /\ p = input
    /\ tabs = <<isl_tab_from_basic_map_2d(input[1]),
                isl_tab_from_basic_map_2d(input[2])>>
    /\ i = 0
    /\ j = 1
    /\ pc = "pair"
    /\ run = 1
    /\ out1 = <<>>
    /\ n0 = 2
    /\ restarts = 0
    /\ last = [changed |-> 0, rule |-> "none"]
    /\ ret = "none"

\* coalesce_local_pair(map, i, j, tabs) up to the branch it selects; the
\* function that the branch calls is not followed.  The branch marked
\* BAD ADJ INEQ is an empty block, and the function returns changed = 0.
PairBranch ==
    /\ pc = "pair"
    /\ last' = [changed |-> 0,
                 rule |-> coalesce_local_pair_2d(p[i + 1], p[j + 1])]
    /\ pc' = IF last'.rule \in {"done", "BAD ADJ INEQ"}
             THEN "returned" ELSE "branch"
    /\ UNCHANGED <<p, tabs, i, j, run, input, out1, n0, restarts, ret>>
    /\ UNCHANGED svars

\* the branch that calls check_adj_eq, up to the return of
\* is_adj_eq_extension or to the return of 0 that comes before its call;
\* can_wrap_in_facet, which check_adj_eq may call after it, is not followed
PairAdjEq ==
    /\ pc = "branch"
    /\ last.rule = "check_adj_eq"
    /\ \E r \in {check_adj_eq_2d([p |-> p, tabs |-> tabs], i, j,
                                  Statuses2(p[i + 1], p[j + 1]))} :
          /\ last' = [changed |-> r.changed, rule |-> r.rule]
          /\ p' = r.p
          /\ tabs' = r.tabs
    /\ pc' = "extension"
    /\ UNCHANGED <<i, j, run, input, out1, n0, restarts, ret>>
    /\ UNCHANGED svars

PNext == PairBranch \/ PairAdjEq

SpecPair == PInit /\ [][PNext]_vars

\* some inequality of one basic map of the pair that is not redundant has
\* status adj_eq against the other, and no constraint is separate
AdjEqCase ==
    Let(Statuses2(p[1], p[2]), LAMBDA st :
        /\ \A k \in 1..4 : ~any(st[k], Len(st[k]), STATUS_SEPARATE)
        /\ \/ any(st[2], Len(st[2]), STATUS_ADJ_EQ)
           \/ any(st[4], Len(st[4]), STATUS_ADJ_EQ))

\* C19: the BAD ADJ INEQ branch of coalesce_local_pair is unreachable: for
\* every pair with no separate constraint in which some non-redundant
\* inequality of one basic map is adj_eq against the other, some equality
\* of the other is adj_ineq or adj_eq against the first, so that an
\* earlier branch is taken.
C19_Unreachable ==
    pc # "pair" /\ AdjEqCase =>
        /\ last.rule \in {"check_eq_adj_eq", "check_adj_eq"}
        /\ Let(Statuses2(p[1], p[2]), LAMBDA st :
                \/ any(st[1], Len(st[1]), STATUS_ADJ_INEQ)
                \/ any(st[1], Len(st[1]), STATUS_ADJ_EQ)
                \/ any(st[3], Len(st[3]), STATUS_ADJ_INEQ)
                \/ any(st[3], Len(st[3]), STATUS_ADJ_EQ))

\* an inequality is adj_eq against the other basic map and the pair has
\* been sent to check_adj_eq
C19_Witness ==
    /\ pc = "branch"
    /\ AdjEqCase
    /\ last.rule = "check_adj_eq"

\* ------------------------------------------- C18: negation in place -----
\* C18: a pass that classifies the equalities of a basic map by negating
\* the row in place (eq_status_in; contains, whether it returns 0 or 1)
\* leaves every equality row with the coefficients it had before, on every
\* return that is not an error: when check_adj_eq returns 0 from
\* is_adj_eq_extension, and so from contains, the equality rows of both
\* basic maps are what they were.
C18_NegationRestored ==
    [][pc = "branch" /\ last'.changed = 0 =>
          \A k \in 1..Len(p) : p'[k].eq = p[k].eq]_vars

\* contains() has returned 0 to is_adj_eq_extension for a basic map with
\* equalities
C18_Witness ==
    /\ pc = "extension"
    /\ last.rule = "is_adj_eq_extension"
    /\ last.changed = 0
    /\ \E k \in 1..Len(p) : Len(p[k].eq) > 0

\* ------------------------------------------------ C20: edge uniqueness ---
\* entries a and b of the edge array have the same source node, the same
\* destination node and the same relation
SameEdge(graph, a, b) ==
    /\ graph.edge[a].src = graph.edge[b].src
    /\ graph.edge[a].dst = graph.edge[b].dst
    /\ graph.edge[a].map = graph.edge[b].map

EdgesUnique(graph) ==
    \A a \in 1..Len(graph.edge) : \A b \in 1..Len(graph.edge) :
        a # b => ~SameEdge(graph, a, b)

\* C20: in every reachable state of a dependence graph, after the graph
\* construction by extract_edge and after every update_edges, no two
\* entries of graph->edge[0..n_edge) have the same source node, the same
\* destination node and the same relation.
C20_EdgeUniqueness ==
    \A k \in 1..Len(graphs) : EdgesUnique(graphs[k].graph)

\* update_edges has restricted the relations of a graph with two edges and
\* has left one of them with a relation that is not empty
C20_Witness ==
    /\ sret = "running"
    /\ graphs[1].graph.n_band > 0
    /\ Len(graphs[1].graph.edge) >= 2
    /\ \E a \in 1..Len(graphs[1].graph.edge) : graphs[1].graph.edge[a].map # {}

\* the entries of the edge array that some edge table refers to are
\* distinct in that sense: update_edge takes an edge whose relation has
\* become empty out of the tables and keeps it in the array
EdgesInTablesUnique ==
    \A k \in 1..Len(graphs) :
        Let(graphs[k].graph, LAMBDA graph :
            \A a \in 1..Len(graph.edge) : \A b \in 1..Len(graph.edge) :
                /\ a # b
                /\ \E e \in graph.tab : e[4] = a
                /\ \E e \in graph.tab : e[4] = b
                => ~SameEdge(graph, a, b))

\* ------------------------------------------------------------------------
\* C21: update_edges keeps the edge array in place.  In every step of the
\* scheduler that stays on the same graph (a row of the loop of
\* compute_schedule_wcc, carry_dependences, compute_next_band,
\* sort_statements) n_edge is as before and every edge keeps its position,
\* its endpoints and its type flags; its relation is either as before or
\* holds exactly its pairs that the rows so far (those present when
\* update_edges ran) schedule at the same point;
\* afterwards no edge table refers to an edge with an empty relation, and an
\* edge with a non-empty relation is referred to from exactly the tables
\* that referred to it before.

\* the edge types whose table refers to edge k
tables_of(graph, k) == {e[1] : e \in {x \in graph.tab : x[4] = k}}

\* a node with the first n rows of its schedule
first_rows(node, n) == [node EXCEPT !.sched = SubSeq(@, 1, n)]

\* the steps that stay on the innermost graph
SameGraphStep ==
    /\ sret = "running" /\ sret' = "running"
    /\ Len(graphs') = Len(graphs)
    /\ graphs[Len(graphs)].at \in {"compute_schedule", "compute_schedule_wcc",
                                   "while"}

EdgeKept(g, h, k) ==
    /\ h.edge[k].src = g.edge[k].src
    /\ h.edge[k].dst = g.edge[k].dst
    /\ h.edge[k].validity = g.edge[k].validity
    /\ h.edge[k].coincidence = g.edge[k].coincidence
    /\ h.edge[k].proximity = g.edge[k].proximity
    /\ h.edge[k].condition = g.edge[k].condition
    /\ h.edge[k].conditional_validity = g.edge[k].conditional_validity
    /\ \/ h.edge[k].map = g.edge[k].map
       \/ \E n \in 1..h.n_total_row :
              h.edge[k].map =
                  {pr \in g.edge[k].map :
                      specializer(
                          first_rows(h.node[graph_find_node(h, h.edge[k].src)], n),
                          first_rows(h.node[graph_find_node(h, h.edge[k].dst)], n),
                          pr)}
    /\ h.edge[k].map = {} => tables_of(h, k) = {}
    /\ h.edge[k].map # {} => tables_of(h, k) = tables_of(g, k)

C21_EdgeIndicesStable ==
    [][SameGraphStep =>
          /\ Len(graphs'[Len(graphs)].graph.edge)
             = Len(graphs[Len(graphs)].graph.edge)
          /\ \A k \in 1..Len(graphs[Len(graphs)].graph.edge) :
                 EdgeKept(graphs[Len(graphs)].graph,
                          graphs'[Len(graphs)].graph, k)]_vars

\* update_edges has emptied one edge and taken it out of its tables, and has
\* shrunk another one that the tables still refer to
C21_Witness ==
    /\ sret = "running"
    /\ graphs[Len(graphs)].graph.n_band > 0
    /\ \E k \in 1..Len(graphs[Len(graphs)].graph.edge) :
           /\ graphs[Len(graphs)].graph.edge[k].map = {}
           /\ tables_of(graphs[Len(graphs)].graph, k) = {}
    /\ \E k \in 1..Len(graphs[Len(graphs)].graph.edge) :
           /\ graphs[Len(graphs)].graph.edge[k].map # {}
           /\ tables_of(graphs[Len(graphs)].graph, k) # {}
           /\ graphs[Len(graphs)].graph.edge[k].map
              # Rel("All", 1, 1)
           /\ graphs[Len(graphs)].graph.edge[k].src
              = graphs[Len(graphs)].graph.edge[k].dst

\* ------------------------------------------------------------------------
\* C22: dropping the coincidence constraints.  A turn of the loop of
\* compute_schedule_wcc whose LP has no solution clears use_coincidence and
\* takes another turn on the same rows if and only if use_coincidence is
\* set and either coincidence is not forced or the band has a row; in every
\* other case the loop is left (next band, split, carry or an error).

\* the innermost graph stands at the head of the loop of
\* compute_schedule_wcc and the loop takes another turn
LoopTurn ==
    /\ sret = "running"
    /\ graphs[Len(graphs)].at = "while"
    /\ graphs[Len(graphs)].graph.n_row < graphs[Len(graphs)].graph.maxvar

\* solve_lp returns a vector of size 0 in this turn
Infeasible ==
    solve_lp([graphs[Len(graphs)].graph EXCEPT
                 !.node = update_cmaps(@, 1)],
             graphs[Len(graphs)].loc.use_coincidence) = <<>>

\* the graph of the turn stays in the loop
StaysInLoop ==
    /\ sret' = "running"
    /\ Len(graphs') = Len(graphs)
    /\ graphs'[Len(graphs)].at = "while"

\* use_coincidence := 0; continue
Retried ==
    /\ StaysInLoop
    /\ graphs[Len(graphs)].loc.use_coincidence
    /\ ~graphs'[Len(graphs)].loc.use_coincidence
    /\ graphs'[Len(graphs)].graph.node = update_cmaps(graphs[Len(graphs)].graph.node, 1)
    /\ graphs'[Len(graphs)].graph.n_total_row
       = graphs[Len(graphs)].graph.n_total_row

BandEmpty ==
    graphs[Len(graphs)].graph.n_total_row = graphs[Len(graphs)].graph.band_start

SplitFrame(con) ==
    [Top(graphs[Len(graphs)]) EXCEPT !.graph.src_scc = con[1],
                                     !.graph.dst_scc = con[2]]

\* the statements of the nodes of a graph, in their order
RECURSIVE node_ids(_, _)
node_ids(node, k) ==
    IF k > Len(node) THEN <<>> ELSE <<node[k].id>> \o node_ids(node, k + 1)

\* the statements of the nodes of graph g in the positions of S, in order
RECURSIVE group_ids(_, _, _)
group_ids(g, S, k) ==
    IF k > Len(g.node) THEN <<>>
    ELSE (IF k \in S THEN <<g.node[k].id>> ELSE <<>>) \o group_ids(g, S, k + 1)

\* r is what compute_split_schedule makes of st up to its first sub-graph
SplitDone(st, r) ==
    r.error = "" =>
        /\ \A k \in 1..Len(st.graph.node) :
               /\ r.graph.node[k].sched =
                      SubSeq(st.graph.node[k].sched, 1, st.graph.band_start)
                      \o <<(<<IF st.graph.node[k].scc <= st.graph.src_scc
                              THEN 0 ELSE 1>>
                            \o Fill(st.graph.node[k].nvar, 0))>>
               /\ r.arrays[st.graph.node[k].id].band[st.graph.band_start + 1]
                  = <<st.graph.n_band>>
               /\ r.arrays[st.graph.node[k].id].coincident[st.graph.band_start + 1]
                  = 0
        /\ r.graph.n_total_row = st.graph.band_start + 1
        /\ r.graph.band_start = r.graph.n_total_row
        /\ r.graph.n_band = st.graph.n_band + 1
        /\ r.at = "compute_split_schedule"
        /\ Len(r.sub) = 1
        /\ node_ids(r.sub[1].graph.node, 1)
           = group_ids(st.graph, nodes_scc(st.graph, 0, st.graph.src_scc), 1)
        /\ r.sub[1].graph.n_total_row = r.graph.n_total_row
        /\ r.sub[1].graph.n_band = r.graph.n_band

\* compute_split_schedule on every graph at the loop, for every pair that
\* check_conflict can record on it
SplitFunction ==
    sret = "running" /\ graphs[Len(graphs)].at = "while" =>
        \A con \in check_conflict(graphs[Len(graphs)].graph) :
            con[1] >= 0 =>
                /\ nodes_scc(graphs[Len(graphs)].graph, 0, con[1]) # {}
                /\ nodes_scc(graphs[Len(graphs)].graph, con[1] + 1,
                             graphs[Len(graphs)].graph.scc) # {}
                /\ SplitDone(SplitFrame(con),
                             compute_split_schedule(SplitFrame(con)))

\* the step of the loop that ends in compute_split_schedule
SplitStep ==
    /\ sret = "running" /\ sret' = "running"
    /\ graphs[Len(graphs)].at = "while"
    /\ Len(graphs') = Len(graphs) + 1
    /\ graphs'[Len(graphs)].at = "compute_split_schedule"

\* the step in which the first sub-graph of a split returns
SplitSecond ==
    /\ sret = "running" /\ sret' = "running"
    /\ Len(graphs) > 1
    /\ graphs[Len(graphs)].at = "done"
    /\ graphs[Len(graphs) - 1].at = "compute_split_schedule"
    /\ ~graphs[Len(graphs) - 1].loc.second

C23_SplitStep ==
    [][/\ SplitFunction
       /\ SplitStep =>
              \E con \in check_conflict(graphs[Len(graphs)].graph) :
                  /\ con[1] >= 0
                  /\ graphs'[Len(graphs)].graph.src_scc = con[1]
                  /\ SplitDone(SplitFrame(con),
                               [graph |-> graphs'[Len(graphs)].graph,
                                at |-> graphs'[Len(graphs)].at,
                                arrays |-> arrays', error |-> "",
                                sub |-> <<graphs'[Len(graphs')]>>])
       /\ SplitSecond =>
              /\ Len(graphs') = Len(graphs)
              /\ graphs'[Len(graphs) - 1].loc.second
              /\ node_ids(graphs'[Len(graphs)].graph.node, 1)
                 = group_ids(graphs[Len(graphs) - 1].graph,
                       nodes_scc(graphs[Len(graphs) - 1].graph,
                                 graphs[Len(graphs) - 1].graph.src_scc + 1,
                                 graphs[Len(graphs) - 1].graph.scc), 1)
              /\ graphs'[Len(graphs)].graph.n_total_row
                 = graphs[Len(graphs) - 1].graph.band_start
              /\ graphs'[Len(graphs)].graph.n_band
                 = graphs[Len(graphs) - 1].graph.n_band]_vars

\* the second group of a split is being scheduled: every statement has the
\* 0/1 row of the split as its row band_start - 1
C23_Witness ==
    /\ sret = "running"
    /\ Len(graphs) > 1
    /\ graphs[Len(graphs) - 1].at = "compute_split_schedule"
    /\ graphs[Len(graphs) - 1].loc.second
    /\ \E k \in 1..Len(graphs[Len(graphs) - 1].graph.node) :
           graphs[Len(graphs) - 1].graph.node[k].sched[
               graphs[Len(graphs) - 1].graph.band_start][1] = 0
    /\ \E k \in 1..Len(graphs[Len(graphs) - 1].graph.node) :
           graphs[Len(graphs) - 1].graph.node[k].sched[
               graphs[Len(graphs) - 1].graph.band_start][1] = 1

\* ------------------------------------------------------------------------
\* C24: the slack variables of the carry LP.  Whenever carry_dependences is
\* called and the solution of its LP is accepted (the sum of the 1 - e_i is
\* below the number of slack variables), the row of the solution fully
\* carries a basic map of a (conditional) validity dependence: all its
\* distances are at least 1.

\* the graph on which compute_schedule_wcc works when the next step calls it
WccFrame ==
    IF TopFrame.at = "compute_schedule"
    THEN [Top(TopFrame) EXCEPT
             !.graph = compute_maxvar(sort_sccs(detect_sccs(
                           IF opt.fuse = "MIN" THEN detect_sccs(TopFrame.graph)
                           ELSE detect_wccs(TopFrame.graph))))]
    ELSE CarryFrame

\* the next step calls carry_dependences: for a Feautrier step of
\* compute_schedule_wcc, entered from compute_schedule or on a component, or
\* from the loop
CarryDependencesCalled ==
    \/ CarryCalled
    \/ /\ sret = "running"
       /\ Len(graphs) > 0
       /\ TopFrame.at = "compute_schedule"
       /\ (IF opt.fuse = "MIN" THEN detect_sccs(TopFrame.graph)
           ELSE detect_wccs(TopFrame.graph)).scc <= 1
       /\ need_feautrier_step(WccFrame.graph)

\* the rows of the solution carry the basic map of edge k
FullyCarried(graph, rows, k) ==
    /\ graph.edge[k].map # {}
    /\ graph.edge[k].validity \/ graph.edge[k].conditional_validity
    /\ \A d \in Distances(graph, rows, graph.edge[k]) : d >= 1

\* carry_dependences does not fail with 'unable to carry dependences'
CarryAccepted ==
    /\ CarryDependencesCalled
    /\ carry_lexmin(WccFrame.graph).size # 0
    /\ carry_lexmin(WccFrame.graph).el1 < count_basic_maps(WccFrame.graph)

C24_CarrySlack ==
    CarryAccepted =>
        \E k \in 1..Len(WccFrame.graph.edge) :
            FullyCarried(WccFrame.graph, carry_lexmin(WccFrame.graph).node, k)

\* the graph has an edge that is only a proximity edge, and the solution of
\* the carry LP is accepted
C24_Witness ==
    /\ CarryAccepted
    /\ \E k \in 1..Len(WccFrame.graph.edge) :
           /\ WccFrame.graph.edge[k].map # {}
           /\ ~WccFrame.graph.edge[k].validity
           /\ ~WccFrame.graph.edge[k].conditional_validity

\* ------------------------------------------------------------------------
\* split_scaled on the rows of a carry step.  The LP of carry_dependences
\* is rational in the library and its solution is scaled to integers, so
\* the row that update_schedule appends can have a common divisor; the
\* integer LP of SpecSched never produces one.  SpecScaled draws the row of
\* every node from a box and applies update_schedule and split_scaled.
MaxScale == 4

\* the rows <<c0>> and <<c0, c1>> of a node with nvar set dimensions
ScaledRows(nvar) ==
    IF nvar = 0 THEN {<<c>> : c \in (0 - MaxScale)..MaxScale}
    ELSE {<<c[1], c[2]>> :
             c \in ((0 - MaxScale)..MaxScale) \X ((0 - MaxScale)..MaxScale)}

\* the solutions for the nodes k.. of a domain
RECURSIVE ScaledSolutions(_, _)
ScaledSolutions(domain, k) ==
    IF k > Len(domain) THEN {<<>>}
    ELSE {<<x[1]>> \o x[2] :
             x \in ScaledRows(domain[k]) \X ScaledSolutions(domain, k + 1)}

NoConstraints ==
    [validity |-> <<>>, coincidence |-> <<>>, condition |-> <<>>,
     conditional_validity |-> <<>>, proximity |-> <<>>]

ScInit ==
    /\ CoalesceIdle
    /\ opt \in {[algorithm |-> "FEAUTRIER", max_coefficient |-> MaxScale,
                 max_constant_term |-> -1, fuse |-> "MAX",
                 separate_components |-> FALSE, maximize_band_depth |-> FALSE,
                 outer_coincidence |-> FALSE, split_scaled |-> b] :
                   b \in BOOLEAN}
    /\ sc \in UNION {{[domain |-> d, constraint |-> NoConstraints, sol |-> x] :
                         x \in ScaledSolutions(d, 1)} :
                       d \in {<<1>>, <<0, 1>>, <<1, 1>>}}
    /\ graphs = <<>>
    /\ arrays = <<>>
    /\ rowlog = <<>>
    /\ sched = <<>>
    /\ sret = "called"

\* carry_dependences from update_schedule on, with sc.sol the solution of
\* its LP: the row is appended
ScaledUpdateSchedule ==
    /\ sret = "called"
    /\ \E s \in {update_schedule(
                     [graph |-> root_graph(sc), at |-> "split_scaled",
                      loc |-> <<>>,
                      arrays |-> Fill(Len(sc.domain),
                                      node_arrays(compute_max_row(sc.domain))),
                      rowlog |-> Fill(Len(sc.domain), <<>>),
                      error |-> "", sub |-> <<>>],
                     sc.sol, FALSE, 0)} :
           /\ graphs' = <<[graph |-> s.graph, at |-> s.at, loc |-> s.loc]>>
           /\ arrays' = s.arrays
           /\ rowlog' = s.rowlog
    /\ sret' = "running"
    /\ UNCHANGED <<opt, sc, sched>>
    /\ UNCHANGED cvars

\* split_scaled on the appended row
ScaledSplit ==
    /\ sret = "running"
    /\ graphs[1].at = "split_scaled"
    /\ \E s \in {[split_scaled(Top(graphs[1])) EXCEPT !.at = "done"]} :
           Leave(<<>>, s)
    /\ UNCHANGED <<opt, sc>>
    /\ UNCHANGED cvars

ScNext == ScaledUpdateSchedule \/ ScaledSplit

SpecScaled == ScInit /\ [][ScNext]_vars

\* d divides every coefficient of the linear parts of the solution
DividesAll(d) ==
    \A k \in 1..Len(sc.sol) : Len(sc.sol[k]) > 1 => sc.sol[k][2] % d = 0

\* the greatest common divisor of the linear parts, 0 if they are all zero
LinearGcd ==
    IF \A k \in 1..Len(sc.sol) : Len(sc.sol[k]) > 1 => sc.sol[k][2] = 0 THEN 0
    ELSE CHOOSE d \in 1..MaxScale :
             DividesAll(d) /\ \A e \in 1..MaxScale : DividesAll(e) => e <= d

\* the two rows that replace the row r of a node
IsSplitOf(rows, r, g) ==
    /\ Len(rows) = 2
    /\ Len(rows[1]) = Len(r) /\ Len(rows[2]) = Len(r)
    /\ 0 <= rows[2][1] /\ rows[2][1] < g
    /\ \A c \in 2..Len(r) : rows[2][c] = 0
    /\ \A c \in 1..Len(r) : g * rows[1][c] + rows[2][c] = r[c]

\* C25: with schedule_split_scaled set and more than one node, let g be
\* the gcd of the linear parts of the latest row over all nodes.  If g > 1,
\* the latest row (c0, lin) of every node becomes (floor(c0 / g), lin / g)
\* and is followed by one row (c0 mod g, 0, ..) in a new band, with
\* 0 <= c0 mod g < g, so that g times the first row plus the second is the
\* original row; if g <= 1 no row and no band counter changes.
C25_SplitScaled ==
    [][/\ sret = "running" /\ graphs[1].at = "split_scaled"
       /\ opt.split_scaled /\ Len(graphs[1].graph.node) > 1
       => /\ sret' = "running"
          /\ IF LinearGcd > 1
             THEN /\ \A k \in 1..Len(sc.sol) :
                         /\ IsSplitOf(graphs'[1].graph.node[k].sched,
                                      sc.sol[k], LinearGcd)
                         /\ arrays'[k].band[2] = <<graphs[1].graph.n_band + 1>>
                         /\ arrays'[k].band[1] = arrays[k].band[1]
                  /\ graphs'[1].graph.n_total_row
                     = graphs[1].graph.n_total_row + 1
                  /\ graphs'[1].graph.n_band = graphs[1].graph.n_band + 1
                  /\ graphs'[1].graph.band_start = graphs[1].graph.n_total_row
             ELSE /\ graphs'[1].graph = graphs[1].graph
                  /\ arrays' = arrays]_vars

\* a row with a negative constant term has been split by a divisor above 1
C25_Witness ==
    /\ sret = "running"
    /\ graphs[1].at = "done"
    /\ opt.split_scaled
    /\ LinearGcd > 1
    /\ \E k \in 1..Len(sc.sol) :
           /\ sc.sol[k][1] < 0
           /\ sc.sol[k][1] % LinearGcd # 0
           /\ Len(graphs[1].graph.node[k].sched) = 2

\* ------------------------------------------------------------------------
\* C26: the repair loop of the conditional validity constraints is bounded.
\* In every turn of the loop of compute_schedule_wcc in which
\* has_violated_conditional_constraint reports a violation the band is
\* reset and a condition edge that was not marked local becomes marked
\* local; no turn of the loop clears a local mark; the number of resets of
\* one call is at most the number of condition edges of the graph.

\* the condition edges of a graph that are marked local
LocalMarks(graph) ==
    {k \in 1..Len(graph.edge) : graph.edge[k].condition /\ graph.edge[k].local}

\* the frame after update_schedule in a turn of the loop whose LP has a
\* solution
RowFrame ==
    update_schedule(LPFrame,
                    solve_lp(LPFrame.graph, TopFrame.loc.use_coincidence),
                    TRUE, 0)

\* has_violated_conditional_constraint reports a violation in this turn
ViolationReported ==
    /\ LoopTurn
    /\ ~Infeasible
    /\ TopFrame.loc.check_conditional
    /\ RowFrame.error = ""
    /\ has_violated_conditional_constraint(RowFrame.graph).any

NestedConstraints ==
    {[domain |-> <<>>, constraint |-> NoConstraints]}
    \cup {[domain |-> <<1, 1, 1>>,
           constraint |-> [NoConstraints EXCEPT !.validity = <<m>>]] :
             m \in {x \in Maps(<<1, 1, 1>>, {"Same"}) : x.src # x.dst}}

NInit ==
    /\ CoalesceIdle
    /\ opt \in Options
    /\ sc \in NestedConstraints
    /\ graphs = <<>>
    /\ arrays = <<>>
    /\ rowlog = <<>>
    /\ sched = <<>>
    /\ sret = "called"

SpecNested == NInit /\ [][SNext]_vars

\* the group of node k of the graph of a frame that waits for its
\* sub-graphs: the half of the split, or the component
GroupOf(frame, k) ==
    IF frame.at = "compute_split_schedule"
    THEN IF frame.graph.node[k].scc <= frame.graph.src_scc THEN 0 ELSE 1
    ELSE frame.graph.node[k].scc

\* the last sub-graph of compute_split_schedule or
\* compute_component_schedule returns
GroupsScheduled ==
    /\ sret = "running" /\ sret' = "running"
    /\ Len(graphs) > 1
    /\ graphs[Len(graphs)].at = "done"
    /\ Len(graphs') = Len(graphs) - 1
    /\ graphs'[Len(graphs')].at = "done"

\* C27: when compute_split_schedule or compute_component_schedule has
\* scheduled its groups of nodes on sub-graphs, two nodes of different
\* groups have different values of band_id at the band index at which the
\* groups were separated (n_band when the sub-graphs were entered).
C27_BandIdsSeparate ==
    [][GroupsScheduled =>
          \A k1, k2 \in 1..Len(graphs[Len(graphs) - 1].graph.node) :
              GroupOf(graphs[Len(graphs) - 1], k1)
              # GroupOf(graphs[Len(graphs) - 1], k2)
              => arrays'[graphs[Len(graphs) - 1].graph.node[k1].id]
                     .band_id[graphs[Len(graphs) - 1].loc.orig_band + 1]
                 # arrays'[graphs[Len(graphs) - 1].graph.node[k2].id]
                       .band_id[graphs[Len(graphs) - 1].loc.orig_band + 1]]_vars

\* a component of the root graph is scheduled by compute_component_schedule
\* in its turn, at the band index of the root
C27_Witness ==
    /\ sret = "running"
    /\ Len(graphs) = 3
    /\ graphs[1].at = "compute_component_schedule"
    /\ graphs[2].at = "compute_component_schedule"
    /\ graphs[2].loc.orig_band = graphs[1].loc.orig_band

\* ------------------------------------------------------------------------
\* compute_schedule, or compute_schedule_wcc called for a component, has
\* returned without error for the innermost graph
ScheduleReturned ==
    /\ sret = "running"
    /\ Len(graphs) > 0
    /\ TopFrame.at = "done"

\* row r of node k of the returned graph was added by pad_schedule
PaddingRow(k, r) ==
    rowlog[TopFrame.graph.node[k].id][r].by = "pad_schedule"

\* C28: when compute_schedule returns without error for a graph, every node
\* of the graph has exactly n_total_row schedule rows, band[] is assigned
\* for every row of every node, and the rows that pad_schedule added are
\* zero rows with band number -1.
C28_UniformLength ==
    ScheduleReturned =>
        \A k \in 1..Len(TopFrame.graph.node) :
            /\ Len(TopFrame.graph.node[k].sched) = TopFrame.graph.n_total_row
            /\ Len(rowlog[TopFrame.graph.node[k].id])
               = TopFrame.graph.n_total_row
            /\ \A r \in 1..TopFrame.graph.n_total_row :
                   /\ r <= Len(arrays[TopFrame.graph.node[k].id].band)
                   /\ arrays[TopFrame.graph.node[k].id].band[r] # UNINIT
                   /\ PaddingRow(k, r) =>
                          /\ TopFrame.graph.node[k].sched[r]
                             = Fill(1 + TopFrame.graph.node[k].nvar, 0)
                          /\ arrays[TopFrame.graph.node[k].id].band[r] = <<-1>>

\* a graph of two nodes has returned, one node with a padding row and the
\* other with a row of a band at the same index
C28_Witness ==
    /\ ScheduleReturned
    /\ \E k1, k2 \in 1..Len(TopFrame.graph.node) :
       \E r \in 1..TopFrame.graph.n_total_row :
           /\ PaddingRow(k1, r)
           /\ ~PaddingRow(k2, r)
           /\ arrays[TopFrame.graph.node[k2].id].band[r] # <<-1>>

\* ------------------------------------------------------------------------
\* Termination.  The call runs on one thread, so a step that can be taken
\* is taken: weak fairness of every step.  For the steps of the recursion
\* the enabling condition of the step is written out as a state predicate
\* (the step is enabled iff the handler of the innermost graph leads to a
\* state that differs from the current one), and weak fairness of the step
\* is stated in its expanded form  []<>~enabled \/ []<><<step>>_vars.

\* what the handler of the innermost graph returns
Outcomes ==
    IF TopFrame.at = "compute_schedule"
    THEN {compute_schedule(Top(TopFrame))}
    ELSE IF TopFrame.at = "compute_schedule_wcc"
    THEN {compute_schedule_wcc(Top(TopFrame))}
    ELSE IF TopFrame.at = "while"
    THEN IF TopFrame.graph.n_row < TopFrame.graph.maxvar
         THEN {compute_schedule_wcc_row(Top(TopFrame), con) :
                  con \in check_conflict(TopFrame.graph)}
         ELSE {compute_schedule_wcc_end(Top(TopFrame))}
    ELSE IF TopFrame.at = "done" /\ Len(graphs) > 1
    THEN {IF graphs[Len(graphs) - 1].at = "compute_split_schedule"
          THEN compute_split_schedule_next(Top(graphs[Len(graphs) - 1]),
                                           TopFrame.graph)
          ELSE compute_component_schedule_next(Top(graphs[Len(graphs) - 1]),
                                               TopFrame.graph)}
    ELSE {}

\* the graphs below the one that the handler works on
OutcomeCallers ==
    IF TopFrame.at = "done" THEN SubSeq(graphs, 1, Len(graphs) - 2)
    ELSE Callers

\* the step to s changes the state
Changes(s) ==
    \/ s.error # ""
    \/ OutcomeCallers \o <<[graph |-> s.graph, at |-> s.at, loc |-> s.loc]>>
           \o s.sub # graphs
    \/ s.arrays # arrays
    \/ s.rowlog # rowlog

\* a step of the recursion is enabled
Scheduling ==
    /\ sret = "running"
    /\ Len(graphs) > 0
    /\ \E s \in Outcomes : Changes(s)

SchedulingStep ==
    \/ ComputeSchedule
    \/ ComputeScheduleWcc
    \/ ComputeRow
    \/ SortStatements
    \/ SubScheduleReturn

\* the calls with an unbounded constant term and without
\* schedule_separate_components
LiveInit ==
    /\ SInit
    /\ opt.max_constant_term = -1
    /\ ~opt.separate_components

SpecSchedLive ==
    /\ LiveInit /\ [][SNext]_vars
    /\ WF_vars(ComputeScheduleEmpty)
    /\ WF_vars(ExtractSchedule)
    /\ ([]<>(sret # "called" \/ Len(sc.domain) = 0)
        \/ []<><<ComputeScheduleCall>>_vars)
    /\ ([]<>~Scheduling \/ []<><<SchedulingStep>>_vars)

\* isl_schedule_constraints_compute_schedule has returned, with a schedule
\* or with an error
Returned == sret \notin {"called", "running"}

\* C29: every call of the scheduler returns, with a schedule or with an
\* error; no run resets bands, retries without coincidence, splits or
\* carries for ever.
C29_Terminates == <>Returned

\* a call has returned a schedule that holds a row of compute_split_schedule
\* and a row of a later band
C29_Witness ==
    /\ sret = "schedule"
    /\ \E k \in 1..Len(rowlog) : \E r1, r2 \in 1..Len(rowlog[k]) :
           /\ r1 < r2
           /\ rowlog[k][r1].by = "compute_split_schedule"
           /\ rowlog[k][r2].by = "update_schedule"

\* ------------------------------------------------------------------------
\* Two statements without set dimensions joined by a validity dependence:
\* max_row is 2.  SpecTight runs the scheduler on these inputs, on one
\* statement with one set dimension and on the empty domain.
TightConstraints ==
    {[domain |-> d, constraint |-> NoConstraints] : d \in {<<>>, <<1>>}}
    \cup {[domain |-> <<0, 0>>,
           constraint |-> [NoConstraints EXCEPT !.validity = <<m>>]] :
             m \in {x \in Maps(<<0, 0>>, {"Same"}) : x.src # x.dst}}

TInit ==
    /\ CoalesceIdle
    /\ opt \in Options
    /\ sc \in TightConstraints
    /\ graphs = <<>>
    /\ arrays = <<>>
    /\ rowlog = <<>>
    /\ sched = <<>>
    /\ sret = "called"

SpecTight == TInit /\ [][SNext]_vars

\* the counters of a graph are within the arrays of its nodes
CountersInRange(graph) ==
    /\ 0 <= graph.n_band
    /\ graph.n_band <= graph.n_total_row
    /\ graph.n_total_row <= graph.max_row
    /\ 0 <= graph.band_start
    /\ graph.band_start <= graph.n_total_row

\* every row of every node of the graph has its band[] and coincident[]
\* inside the arrays
RowsInArrays(graph) ==
    \A k \in 1..Len(graph.node) :
        /\ Len(graph.node[k].sched) <= Len(arrays[graph.node[k].id].band)
        /\ Len(graph.node[k].sched) <= Len(arrays[graph.node[k].id].coincident)
        /\ Len(arrays[graph.node[k].id].band) = graph.max_row
        /\ Len(arrays[graph.node[k].id].band_id) = graph.max_row

\* the innermost graph is handed to compute_split_schedule or to
\* compute_component_schedule in this step, which writes band_id[n_band]
\* before it enters the first sub-graph
BandIdWrite ==
    /\ sret = "running" /\ sret' = "running"
    /\ Len(graphs) > 0
    /\ Len(graphs') = Len(graphs) + 1
    /\ TopFrame.at \notin {"compute_split_schedule", "compute_component_schedule"}
    /\ graphs'[Len(graphs)].at
           \in {"compute_split_schedule", "compute_component_schedule"}

\* C30: in every graph n_band <= n_total_row <= max_row and
\* band_start <= n_total_row, the rows of every node have their band[] and
\* coincident[] inside the arrays of max_row elements, and every write of
\* band_id[n_band] uses an index below max_row.
C30_CountersInArrays ==
    [][/\ \A q \in 1..Len(graphs') :
              /\ CountersInRange(graphs'[q].graph)
              /\ \A k \in 1..Len(graphs'[q].graph.node) :
                     Len(graphs'[q].graph.node[k].sched)
                     <= graphs'[q].graph.max_row
       /\ BandIdWrite =>
              graphs'[Len(graphs)].loc.orig_band
              < graphs'[Len(graphs)].graph.max_row]_vars

\* compute_component_schedule has written band_id[n_band] after
\* split_on_scc has added the row with index max_row - 1
C30_Witness ==
    /\ sret = "running"
    /\ Len(graphs) > 1
    /\ graphs[1].at = "compute_component_schedule"
    /\ graphs[1].graph.n_total_row = graphs[1].graph.max_row
    /\ graphs[1].loc.orig_band = graphs[1].loc.orig_total_row

====
